---------------------------- MODULE Spec2Model ----------------------------
(***************************************************************************)
(* Kindle-Dashboard-Server: the aggregation engine of src/data_services.py *)
(* (SimpleCache and the fetchers) and src/app.py (the dashboard            *)
(* orchestrator).                                                          *)
(*                                                                         *)
(* Three specifications share this module:                                 *)
(*   SpecCache  one SimpleCache instance driven by get/set under a clock    *)
(*   SpecFetch  worker threads running the fetchers step by step, with the  *)
(*              cache locks, yf_lock, the three caches and the clock        *)
(*   SpecDash   one /dashboard request: submit, the waits with their        *)
(*              timeouts, the fallbacks, the snapshot                       *)
(* Time is counted in whole ticks; a TTL is a number of ticks.              *)
(***************************************************************************)
EXTENDS Integers, Sequences, FiniteSets, TLC

VARIABLES
    \* ---- SpecCache: a single SimpleCache instance
    clock,      \* time.time()
    store,      \* self.cache : key -> (value, timestamp) or NoEntry
    lastSet,    \* history: key -> the arguments and time of the last set
    overwrote,  \* history: key -> the last set found an entry already there
    firstSetAt, \* history: key -> time of the set before the last one
    lastOp,     \* history: the last operation and what it returned
    \* ---- SpecFetch: the worker threads and what they share
    newsUrl,    \* Config.NEWS_EXTERNAL_URL
    caches,     \* weather_cache, finance_cache, news_cache : the dicts
    locks,      \* the self.lock of each cache : the thread holding it, or 0
    yf_lock,    \* yf_lock : the thread holding it, or 0
    pc,         \* thread -> where it is in the fetcher it runs
    call,       \* thread -> the fetcher, its argument and its locals
    waiter,     \* thread -> the submitter's future.result(timeout=...)
    ncalls,     \* tasks submitted so far
    abandonedWrite, \* history: cache -> key -> the entry was written by a
                \* task whose submitter had timed out
    \* ---- SpecDash: one /dashboard request
    opc,        \* where dashboard() is: start, wait, render, done, error
    widx,       \* the future dashboard() waits on, by its place in WaitOrder
    task,       \* future -> the state of the task and its result
    got,        \* future -> the local the wait assigned (weather, calendar,
                \* news, or the entry appended to finance_data)
    waited,     \* history: future -> how its wait ended
    finance_data, \* the list that the loop of app.py:55-76 appends to
    \* ---- SpecLock: threads inside get and set of the SimpleCache instance
    lock,       \* self.lock : the thread holding it, or 0
    tpc,        \* thread -> where it is in get or set
    tloc,       \* thread -> the arguments and locals of its call
    \* ---- SpecRank: one run of the ranking of get_hacker_news
    rin,        \* what the Hacker News API answers: the two ID lists, the items
    rpc,        \* where get_hacker_news is between lines 391 and 541
    rk,         \* its locals: top_ids, best_ids, items_map, ...
    \* ---- SpecRender: the requests to /render, src/app.py:85-136
    render_cache, \* _render_cache : data and timestamp
    rclock,     \* time.time(), in seconds
    rreq,       \* request thread -> where it is in render_dashboard, its
                \* current_time, its image_bytes, its response, and how often
                \* it called the renderer
    nreq,       \* history: the requests received so far
    \* ---- SpecSlot, SpecAlert, SpecCalendar: one run of a computation
    cin,        \* the inputs: the time of the call, the configuration, the
                \* response it works on
    cpc,        \* where the computation is
    cout        \* its locals

histVars == <<store, lastSet, overwrote, firstSetAt, lastOp>>
cacheVars == <<clock, histVars>>
fetchVars == <<newsUrl, caches, locks, yf_lock, pc, call, waiter, ncalls,
               abandonedWrite>>

dashVars == <<opc, widx, task, got, waited, finance_data>>
lockVars == <<lock, tpc, tloc>>
rankVars == <<rin, rpc, rk>>
renderVars == <<render_cache, rclock, rreq, nreq>>
calcVars == <<cin, cpc, cout>>

\* the variables that the actions of SpecCache, SpecFetch and SpecDash never
\* touch
restVars == <<lockVars, rankVars, renderVars, calcVars>>

vars == <<cacheVars, fetchVars, dashVars, restVars>>

-----------------------------------------------------------------------------
(* Bounds of the model *)

\* the clock stops here
MaxTime == 5
\* ttl_seconds of the SimpleCache instance of SpecCache, in ticks
Ttl == 2
\* SpecFetch: the tasks submitted in all, the last tick of the clock, and the
\* TTL of the three caches in ticks (Config.CACHE_TTL_WEATHER, _FINANCE, _NEWS)
MaxCalls == 2
\* SpecLock: the last tick of the clock
LockMaxTime == 2
\* SpecRank: the story IDs the API can answer with, 1 .. MaxStories
MaxStories == 22
\* the hours of the hourly series of a forecast response
MaxHourly == 72
\* the request threads of /render, the requests they serve, and the clock of
\* /render: it starts at RenderEpoch seconds (time.time() of a server is far
\* over CACHE_DURATION) and advances by RenderStep seconds over a span of
\* RenderMaxTime
MaxHandlers == 2
MaxRequests == 3
RenderEpoch == 1000
RenderStep == 20
RenderMaxTime == 80
\* the length of the long external feed
MaxFeed == 12
MaxFetchTime == 1
FetchTtl == 1

-----------------------------------------------------------------------------
(* SimpleCache, src/data_services.py:20-39 *)

\* Python's None. Every Python value of the model is a record, so that any
\* two of them can be compared.
PyNone == [none |-> TRUE]

\* a Python list
PyList(seq) == [list |-> seq]

\* bool(v) of the values the fetchers test with `if cached:`: None and the
\* empty list are false, a non-empty list, a dict and a non-empty tuple true
Truthy(v) == v # PyNone /\ v # PyList(<<>>)

\* seq[:n]
Take(seq, n) == SubSeq(seq, 1, IF Len(seq) < n THEN Len(seq) ELSE n)

ToSet(seq) == {seq[i] : i \in DOMAIN seq}

\* d.get(f, default)
GetOr(d, f, default) == IF f \in DOMAIN d THEN d[f] ELSE default

\* d[f] = v
SetField(d, f, v) ==
    [g \in DOMAIN d \cup {f} |-> IF g = f THEN v ELSE d[g]]

\* self.cache.get(key) when the key is not in the dict
NoEntry == [absent |-> TRUE]

Entry(v, t) == [val |-> v, ts |-> t]

\* SimpleCache.__init__: self.cache = {}
SimpleCache_init(keys) == [k \in keys |-> NoEntry]

\* the comparison of SimpleCache.get with <= for <
SimpleCache_live_le(item, t, ttl) == t - item.ts <= ttl

\* SimpleCache.get, line 31: time.time() - timestamp < self.ttl
SimpleCache_live(item, t, ttl) == t - item.ts < ttl

\* SimpleCache.get: the body run under self.lock at time t.
\* `if item:` is true of every stored tuple (a 2-tuple is never falsy).
\* Gives the returned value and the dict afterwards.
SimpleCache_get(c, key, t, ttl) ==
    LET item == c[key] IN
    IF item = NoEntry
    THEN [ret |-> PyNone, cache |-> c]
    ELSE IF SimpleCache_live(item, t, ttl)
         THEN [ret |-> item.val, cache |-> c]
         ELSE [ret |-> PyNone, cache |-> [c EXCEPT ![key] = NoEntry]]

\* a set that keeps the timestamp of the entry it overwrites
SimpleCache_set_keep_age(c, key, value, t) ==
    IF c[key] = NoEntry
    THEN [c EXCEPT ![key] = Entry(value, t)]
    ELSE [c EXCEPT ![key] = Entry(value, c[key].ts)]

\* SimpleCache.set: self.cache[key] = (value, time.time())
SimpleCache_set(c, key, value, t) == [c EXCEPT ![key] = Entry(value, t)]

-----------------------------------------------------------------------------
(* The values the fetchers return, src/data_services.py *)

\* get_weather, lines 88-102: weather_data before any request
WeatherPlaceholder ==
    [location |-> [name |-> "CITY_NAME"],
     current  |-> [temp |-> "--", humidity |-> "--", desc |-> "N/A",
                   icon |-> "", rain_chance |-> "--", uv |-> "--",
                   aqi |-> "--", aqi_level |-> "Unknown"],
     forecast |-> <<>>,
     tomorrow |-> [label |-> "", icon |-> "", temp |-> "", desc |-> ""]]

\* lines 119-130: the current weather of the forecast response is filled in
WeatherAfterCurrent(wd) ==
    [wd EXCEPT !.current =
        [f \in DOMAIN wd.current |->
            CASE f = "temp"     -> "31"
              [] f = "humidity" -> "80%"
              [] f = "desc"     -> "Cloudy"
              [] f = "icon"     -> "02d"
              [] f = "uv"       -> "5.5"
              [] OTHER          -> wd.current[f]]]

\* an air-quality failure that throws away what the forecast had filled in
WeatherAfterAqi_reset(wd, us_aqi) ==
    IF us_aqi = 0
    THEN WeatherPlaceholder
    ELSE [wd EXCEPT !.current =
            [f \in DOMAIN wd.current |->
                CASE f = "aqi"       -> "42"
                  [] f = "aqi_level" -> "Good"
                  [] OTHER           -> wd.current[f]]]

\* lines 141-164: the air-quality response is filled in; us_aqi is the number
\* of the response, 0 when the response has none (`us_aqi if us_aqi else "--"`,
\* and aqi_level only `if us_aqi`)
WeatherAfterAqi(wd, us_aqi) ==
    IF us_aqi = 0
    THEN wd
    ELSE [wd EXCEPT !.current =
            [f \in DOMAIN wd.current |->
                CASE f = "aqi"       -> "42"
                  [] f = "aqi_level" -> "Good"
                  [] OTHER           -> wd.current[f]]]

\* lines 170-173: rain chance of the first hourly sample
WeatherAfterRain(wd) ==
    [wd EXCEPT !.current =
        [f \in DOMAIN wd.current |->
            IF f = "rain_chance" THEN "20%" ELSE wd.current[f]]]

\* lines 190-239: the three forecast slots
WeatherAfterForecast(wd) ==
    [wd EXCEPT !.forecast =
        << [label |-> "h+1", icon |-> "02d", temp |-> "31", desc |-> "Cloudy"],
           [label |-> "h+2", icon |-> "02d", temp |-> "30", desc |-> "Cloudy"],
           [label |-> "smart", icon |-> "10d", temp |-> "29", desc |-> "Rain"] >>]

\* lines 242-330: high_low, tomorrow, alert, has_warning, upcoming_alerts
WeatherAfterDaily(wd) ==
    [location |-> wd.location,
     current  |-> [f \in DOMAIN wd.current \cup
                         {"high_low", "alert", "has_warning", "upcoming_alerts"} |->
                     CASE f = "high_low"        -> "32 / 26"
                       [] f = "alert"           -> "Rain in 2h"
                       [] f = "has_warning"     -> "False"
                       [] f = "upcoming_alerts" -> "[(2, Rain)]"
                       [] OTHER                 -> wd.current[f]],
     forecast |-> wd.forecast,
     tomorrow |-> [label |-> "Tomorrow", icon |-> "01d", temp |-> "33/27",
                   desc |-> "Clear"]]

\* What the forecast request and the code after it can do (lines 104-337):
\*   "fail"       requests.get(...).json() raises (line 116)
\*   "bad_daily"  the current and hourly parts parse, the daily arrays raise
\*                (line 245)
\*   "ok"         everything parses
ForecastOutcomes == {"fail", "bad_daily", "ok"}

\* What the air-quality request can give (lines 133-167): an exception (caught,
\* line 166; a response without us_aqi leaves the same fields), or a response
\* with a us_aqi
AqiOutcomes == {"fail", "ok"}

\* a get_weather that returns the three-field literal of app.py:42 when a
\* step fails
get_weather_data_bare(fc, aq) ==
    IF fc = "ok"
    THEN WeatherAfterDaily(WeatherAfterForecast(WeatherAfterRain(
             WeatherAfterAqi(WeatherAfterCurrent(WeatherPlaceholder),
                             IF aq = "ok" THEN 42 ELSE 0))))
    ELSE [current |-> [temp |-> "--"], forecast |-> <<>>, tomorrow |-> <<>>]

\* weather_data when get_weather returns, by what the two requests did
get_weather_data(fc, aq) ==
    LET w1 == WeatherAfterCurrent(WeatherPlaceholder)
        w2 == WeatherAfterAqi(w1, IF aq = "ok" THEN 42 ELSE 0)
        w3 == WeatherAfterRain(w2)
        w4 == WeatherAfterForecast(w3)
    IN CASE fc = "fail"      -> WeatherPlaceholder
         [] fc = "bad_daily" -> w4
         [] OTHER            -> WeatherAfterDaily(w4)

\* a get_weather whose except stores what it returns
WeatherStores_always(fc) == TRUE

\* get_weather reaches weather_cache.set (line 332) only when nothing raised
WeatherStores(fc) == fc = "ok"

\* generate_sparkline's failure result: return None, "--", 0
\* (lines 561, 569, 571, 592)
FinanceFailed == [chart |-> "None", price |-> [str |-> "--"], change |-> 0]

\* generate_sparkline's result (line 587): (plot_url, current_price,
\* percent_change); the price in 1/100000 and the change in 1/100 percent
FinanceResult(price, change) ==
    [chart |-> "base64png", price |-> [num |-> price], change |-> change]

\* the prices and changes a download can give, per ticker
FinanceQuotes == {FinanceResult(512346, 12)}

\* What yf.download and the code after it can do (lines 556-592)
YfOutcomes == {"raise", "empty", "ok"}

\* what generate_sparkline returns, by what the download did: the failure
\* result on an exception (line 592) and on an absent or empty history
\* (lines 560-561, 571), else the result of line 587 for the quote q
generate_sparkline_result(o, q) == IF o = "ok" THEN q ELSE FinanceFailed

\* a generate_sparkline that stores whatever it is about to return
SparklineStores_always(o) == TRUE

\* generate_sparkline reaches finance_cache.set (line 588) only with a
\* price series
SparklineStores(o) == o = "ok"

\* get_hacker_news / get_external_news: the display_stories a fetch can build
\* (lines 527-540, 355-363); the list is empty when no item resolved or the
\* external feed is an empty array
NewsStory(id, brk) ==
    [title |-> "t", score |-> 100, url |-> "u", id |-> id, velocity |-> 0,
     time |-> 0, is_breaking |-> brk, is_external |-> FALSE]

ExternalStory(title) == [title |-> title, meta |-> "m", is_external |-> TRUE]

HnLists == {PyList(<<>>), PyList(<<NewsStory(1, TRUE), NewsStory(2, FALSE)>>)}

ExternalLists == {PyList(<<>>), PyList(<<ExternalStory("x1")>>)}

\* the failure result of both news fetchers: return []
NewsFailed == PyList(<<>>)

\* what requests.get can do: raise (timeout, connection error), answer with
\* a status that is not 2xx, or answer
RequestOutcomes == {"raise", "not_ok", "ok"}

\* what the request of get_external_news can do (lines 347-352): raise,
\* answer with a status that is not 2xx, or answer with a JSON array: an
\* empty one, one of one item, one of MaxFeed items of which some lack a
\* title or a meta and all carry a url
FeedOutcomes == {"raise", "not_ok", "empty", "one", "long"}

ItemTitle(i) ==
    <<"x1", "x2", "x3", "x4", "x5", "x6", "x7", "x8", "x9", "x10", "x11",
      "x12", "x13", "x14">>[i]

FeedItem(i) ==
    CASE i % 3 = 0 -> [title |-> ItemTitle(i), url |-> "u"]
      [] i % 3 = 1 -> [title |-> ItemTitle(i), meta |-> "m", url |-> "u"]
      [] OTHER     -> [meta |-> "m", url |-> "u"]

FeedOf(o) ==
    CASE o = "empty" -> <<>>
      [] o = "one"   -> <<[title |-> "x1", meta |-> "m"]>>
      [] o = "long"  -> [i \in 1 .. MaxFeed |-> FeedItem(i)]

\* a get_external_news without the [:10]
ExternalDisplay_uncapped(items) ==
    [i \in DOMAIN items |->
        [title |-> GetOr(items[i], "title", ""),
         meta |-> GetOr(items[i], "meta", ""),
         is_external |-> TRUE]]

\* lines 355-361: display_stories of get_external_news
ExternalDisplay(items) ==
    [i \in DOMAIN Take(items, 10) |->
        [title |-> GetOr(items[i], "title", ""),
         meta |-> GetOr(items[i], "meta", ""),
         is_external |-> TRUE]]

\* a get_hacker_news whose requests are outside the try
HnFailurePc_uncaught(o) == IF o = "raise" THEN "raised" ELSE "returned"

\* where get_hacker_news is after a failed ID-list request: `return []` of
\* line 389, or of line 547 after the except of line 543 caught the exception
HnFailurePc(o) == "returned"

-----------------------------------------------------------------------------
(* The ranking of get_hacker_news, src/data_services.py:391-541.           *)
(* An item is the dict of the item endpoint: id, score, descendants, title *)
(* and age, the age being (now - item['time']) / 3600 counted in half      *)
(* hours. The dicts live in items_map; breaking_candidates,                *)
(* best_candidates and final_list hold references to them, here their ids, *)
(* so that item['velocity'] = ... and item['is_breaking'] = ... written    *)
(* through one list are seen through the others, as in the code.           *)

\* top_ids_resp.json()[:20], line 391
IdSlice == 20
\* len(final_list) >= 10, lines 500, 507, 510, 517, 520
NewsCap == 10
\* age_hours > 12, line 430, in half hours
MaxAge == 24
\* score < 50, line 430
MinScore == 50
\* breaker['velocity'] > 30, line 492, in 1/1000
BreakThreshold == 30000

\* the titles of the model and what `any(w in title_lower for w in ...)`
\* gives for them: subjective_words (line 444) has " i ", " me ", " my ",
\* "forced me"; event_words (lines 449-453) has "release", "gpt", ...
Titles == {"Show HN: a clock", "Why I left my job", "GPT-5 release",
           "GPT release forced me out"}

HasSubjective(title) ==
    title \in {"Why I left my job", "GPT release forced me out"}

HasEvent(title) == title \in {"GPT-5 release", "GPT release forced me out"}

\* a modifier in which the two factors add up instead of multiplying
SemanticModifier_additive(title) ==
    100 - (IF HasSubjective(title) THEN 60 ELSE 0)
        + (IF HasEvent(title) THEN 50 ELSE 0)

\* lines 439-455: semantic_modifier, in 1/100: 1.0, *= 0.4, *= 1.5
SemanticModifier(title) ==
    ((IF HasSubjective(title) THEN 40 ELSE 100) *
     (IF HasEvent(title) THEN 150 ELSE 100)) \div 100

\* math.pow(age_hours + 1.5, 1.8), line 459, in 1/1000 (rounded), for the
\* ages of the model: -0.5 h, 0.5 h, 1 h, 5 h, 9 h, 12 h, 12.5 h, 13 h
Pow18(age) ==
    CASE age = -1 -> 1000
      [] age = 1  -> 3482
      [] age = 2  -> 5203
      [] age = 10 -> 29057
      [] age = 18 -> 68888
      [] age = 24 -> 108293
      [] age = 25 -> 115619
      [] age = 26 -> 123158

\* a filter that stops before 12 hours
IsCandidate_strict(item) == ~(item.age >= MaxAge \/ item.score < MinScore)

\* line 430: `if age_hours > 12 or score < 50: continue`
IsCandidate(item) == ~(item.age > MaxAge \/ item.score < MinScore)

\* lines 436-459: impact = score + descendants * 0.2 and
\* velocity = impact * semantic_modifier / pow(age_hours + 1.5, 1.8),
\* in 1/1000 and cut there: with impact in fifths, the modifier in 1/100 and
\* the power in 1/1000 this is impact5 * modifier * 2000 / power
Velocity(item) ==
    ((5 * item.score + item.descendants) * SemanticModifier(item.title) * 2000)
        \div Pow18(item.age)

\* a list sorted by list.sort(key=..., reverse=True) with x put in: the sort
\* is stable, so x comes after every element whose key is not smaller
InsertDesc(sorted, x, keyf) ==
    LET n == Cardinality({i \in DOMAIN sorted : keyf[sorted[i]] >= keyf[x]})
    IN SubSeq(sorted, 1, n) \o <<x>> \o SubSeq(sorted, n + 1, Len(sorted))

RECURSIVE SortDesc(_, _)
\* sorted(seq, key=keyf, reverse=True)
SortDesc(seq, keyf) ==
    IF seq = <<>> THEN <<>>
    ELSE InsertDesc(SortDesc(SubSeq(seq, 1, Len(seq) - 1), keyf),
                    seq[Len(seq)], keyf)

\* an item filter that lets dead items through
KeptItem_dead(item) == item # PyNone /\ ~GetOr(item, "deleted", FALSE)

\* line 411: if item and not item.get('deleted') and not item.get('dead')
KeptItem(item) ==
    /\ item # PyNone
    /\ ~GetOr(item, "deleted", FALSE)
    /\ ~GetOr(item, "dead", FALSE)

\* lines 400-412: the items that resolve, by id; an item whose lookup failed
\* or that is deleted or dead is not in items_map
ItemsMap(ids, answer) ==
    [i \in DOMAIN answer |->
        IF i \in ids /\ KeptItem(answer[i]) THEN answer[i] ELSE PyNone]

\* lines 419-431: the ids of top_ids, in order, whose item is resolved and
\* passes the filter
FilterCandidates(top_ids, items_map) ==
    SelectSeq(top_ids, LAMBDA sid : /\ items_map[sid] # PyNone
                                    /\ IsCandidate(items_map[sid]))

\* line 461: item['velocity'] = velocity, for every candidate
WithVelocity(items_map, cands) ==
    [i \in DOMAIN items_map |->
        IF i \in ToSet(cands)
        THEN SetField(items_map[i], "velocity", Velocity(items_map[i]))
        ELSE items_map[i]]

\* a threshold that a velocity of exactly 30 passes
OverThreshold_ge(velocity) == velocity >= BreakThreshold

\* line 492: breaker['velocity'] > 30
OverThreshold(velocity) == velocity > BreakThreshold

\* the resolved best stories by score instead of in the order of best_ids
BestCandidates_byScore(best_ids, items_map) ==
    SortDesc(SelectSeq(best_ids, LAMBDA sid : items_map[sid] # PyNone),
             [i \in DOMAIN items_map |-> GetOr(items_map[i], "score", 0)])

\* lines 468-472: the items of best_ids that resolved, in the order of best_ids
BestCandidates(best_ids, items_map) ==
    SelectSeq(best_ids, LAMBDA sid : items_map[sid] # PyNone)

\* a backfill that has nothing to offer
SortedTop_none(top_ids, items_map) == <<>>

\* line 517: the resolved stories of top_ids by descending score
SortedTop(top_ids, items_map) ==
    SortDesc(SelectSeq(top_ids, LAMBDA sid : items_map[sid] # PyNone),
             [i \in DOMAIN items_map |-> GetOr(items_map[i], "score", 0)])

\* a fill loop that ends after the first element of the list
FillFrom_first(st, seq) ==
    IF seq = <<>> \/ Len(st.final_list) >= NewsCap THEN st
    ELSE LET sid == Head(seq) IN
         IF sid \notin st.seen_ids
         THEN [st EXCEPT
                 !.items_map[sid] = SetField(@, "is_breaking", FALSE),
                 !.final_list = Append(@, sid),
                 !.seen_ids = @ \cup {sid}]
         ELSE st

RECURSIVE FillFrom(_, _)
\* the loop of lines 499-504, 509-514 and 519-524 over the list seq:
\*   if len(final_list) >= 10: break
\*   if item['id'] not in seen_ids:
\*       item['is_breaking'] = False; final_list.append(item); seen_ids.add(..)
FillFrom(st, seq) ==
    IF seq = <<>> \/ Len(st.final_list) >= NewsCap THEN st
    ELSE LET sid == Head(seq) IN
         FillFrom(IF sid \notin st.seen_ids
                  THEN [st EXCEPT
                          !.items_map[sid] = SetField(@, "is_breaking", FALSE),
                          !.final_list = Append(@, sid),
                          !.seen_ids = @ \cup {sid}]
                  ELSE st,
                  Tail(seq))

\* lines 527-538: the dict shown for an item
DisplayStory(item) ==
    [title |-> item.title, score |-> item.score, url |-> "", id |-> item.id,
     velocity |-> GetOr(item, "velocity", 0), time |-> item.age,
     is_breaking |-> GetOr(item, "is_breaking", FALSE), is_external |-> FALSE]

-----------------------------------------------------------------------------
(* The fallbacks of the orchestrator, src/app.py:38-59 *)

\* line 42: weather = {"current": {"temp": "--"}, "forecast": [], "tomorrow": {}}
WeatherFallback ==
    [current |-> [temp |-> "--"], forecast |-> <<>>, tomorrow |-> <<>>]

\* line 47: calendar = {"date_str": "--", "weekday": "--", "lunar": "--"}
CalendarFallback == [date_str |-> "--", weekday |-> "--", lunar |-> "--"]

\* line 52: news = []
NewsFallback == PyList(<<>>)

\* line 59: chart, price, change = None, "--", 0
FinanceFallback == [chart |-> "None", price |-> [str |-> "--"], change |-> 0]

\* except branches that substitute the fetcher's own placeholder
Fallback_fetcher(fn) ==
    CASE fn = "get_weather"        -> WeatherPlaceholder
      [] fn = "get_calendar_info"  -> CalendarFallback
      [] fn = "get_hacker_news"    -> NewsFallback
      [] fn = "generate_sparkline" -> FinanceFallback

\* the except branch of the wait on a task running fetcher fn
Fallback(fn) ==
    CASE fn = "get_weather"        -> WeatherFallback
      [] fn = "get_calendar_info"  -> CalendarFallback
      [] fn = "get_hacker_news"    -> NewsFallback
      [] fn = "generate_sparkline" -> FinanceFallback

\* a wait that lets the exception of the task through
WaitResult_uncaught(done, raised, val, fn) ==
    IF done THEN (IF raised THEN [exc |-> "raised"] ELSE val) ELSE Fallback(fn)

\* try: x = future.result(timeout=...) / except: x = <fallback> (lines 38-59):
\* the result when the task has returned, the fallback when it has raised or
\* is not done when the timeout ends the wait
WaitResult(done, raised, val, fn) ==
    IF done /\ ~raised THEN val ELSE Fallback(fn)

-----------------------------------------------------------------------------
(* The state SpecFetch starts in *)

\* app.py:30-34
Tickers ==
    << [symbol |-> "SGDCNY=X", name |-> "SGD/CNY"],
       [symbol |-> "CNY=X",    name |-> "USD/CNY"],
       [symbol |-> "BTC-USD",  name |-> "BTC/USD"] >>

Symbols == {Tickers[i].symbol : i \in DOMAIN Tickers}

\* executor = ThreadPoolExecutor(max_workers=20), app.py:10: the threads that
\* run the fetch tasks. Two of the twenty are modelled.
MaxWorkers == 2

Workers == 1 .. MaxWorkers

\* no thread
NoHolder == 0

CacheNames == {"weather", "finance", "news"}

\* the keys the fetchers use: f'weather_data_{lat}_{lon}' of the default
\* location, f"spark_{ticker_symbol}", 'hn_top10', f'external_{url}'
KeysOf(c) ==
    CASE c = "weather" -> {"weather_data"}
      [] c = "finance" -> Symbols
      [] c = "news"    -> {"hn_top10", "external"}

\* Config.NEWS_EXTERNAL_URL as get_hacker_news reads it (line 372): the class
\* of src/config.py has no such attribute ("missing": the read raises
\* AttributeError); a configuration that defines it gives "" or a URL
NewsUrlConfigs == {"missing", "", "url"}

NoCall == [fn |-> "none"]

NoWait == "none"

FetchGroupInit ==
    /\ caches = [c \in CacheNames |-> SimpleCache_init(KeysOf(c))]
    /\ locks = [c \in CacheNames |-> NoHolder]
    /\ yf_lock = NoHolder
    /\ pc = [t \in Workers |-> "idle"]
    /\ call = [t \in Workers |-> NoCall]
    /\ waiter = [t \in Workers |-> NoWait]
    /\ ncalls = 0
    /\ abandonedWrite = [c \in CacheNames |-> [k \in KeysOf(c) |-> FALSE]]

-----------------------------------------------------------------------------
(* The state SpecDash starts in *)

\* get_calendar_info's result (lines 657-663); holiday is None or the name of
\* today's holiday, next_non_working the next weekend day or holiday
CalendarInfo(holiday) ==
    [date_str |-> "2026-11-01", weekday |-> "Sunday", lunar |-> "Lunar 9/23",
     holiday |-> holiday,
     next_non_working |-> [date |-> "11-07", name |-> "Saturday",
                           days_away |-> 6]]

CalendarInfos == {CalendarInfo(PyNone), CalendarInfo([str |-> "Deepavali"])}

\* the futures of dashboard() in the order it waits on them (lines 38-57):
\* weather, calendar, news, then one per ticker
WaitOrder ==
    <<"weather", "calendar", "news">> \o
        [i \in DOMAIN Tickers |-> Tickers[i].symbol]

TaskIds == {WaitOrder[i] : i \in DOMAIN WaitOrder}

\* the fetcher submitted for a future (lines 25-27, 35)
FnOf(d) ==
    CASE d = "weather"  -> "get_weather"
      [] d = "calendar" -> "get_calendar_info"
      [] d = "news"     -> "get_hacker_news"
      [] OTHER          -> "generate_sparkline"

\* the ticker of a finance future
TickerOf(d) == CHOOSE tk \in {Tickers[i] : i \in DOMAIN Tickers} : tk.symbol = d

\* a local that is not assigned yet
Unset == [unset |-> TRUE]

\* a future that is not submitted, one whose task runs, one whose task returned
\* val or raised; how: the fetch succeeded ("ok"), a request or the parsing
\* failed inside the fetcher ("failed"), or the exception left the fetcher
NoTask == [st |-> "none"]
Running == [st |-> "running"]
Returned(val, how) == [st |-> "returned", val |-> val, how |-> how]
Raised == [st |-> "raised"]

DashGroupInit ==
    /\ opc = "start"
    /\ widx = 0
    /\ task = [d \in TaskIds |-> NoTask]
    /\ got = [d \in TaskIds |-> Unset]
    /\ waited = [d \in TaskIds |-> ""]
    /\ finance_data = <<>>
-----------------------------------------------------------------------------
(* The state SpecLock starts in *)

\* a thread that is in no call
NoLocals == [op |-> "none"]

LockGroupInit ==
    /\ lock = NoHolder
    /\ tpc = [t \in Workers |-> "idle"]
    /\ tloc = [t \in Workers |-> NoLocals]

\* no answer of the API and no locals: get_hacker_news is not running
NoRankInput == [top |-> <<>>, best |-> <<>>]
NoRanking == [top_ids |-> <<>>]

RankGroupInit ==
    /\ rin = NoRankInput
    /\ rpc = "idle"
    /\ rk = NoRanking

\* the groups of the specifications that come after SpecDash
\* the request threads of /render; Flask's server runs each request in a
\* thread of its own
Handlers == 1 .. MaxHandlers

NoImage == PyNone
NoResponse == [status |-> 0]
NoRequest ==
    [pc |-> "idle", current_time |-> 0, image_bytes |-> NoImage,
     resp |-> NoResponse, renders |-> 0, id |-> 0]

\* app.py:19: _render_cache = {"data": None, "timestamp": 0}
RenderGroupInit ==
    /\ render_cache = [data |-> NoImage, timestamp |-> 0]
    /\ rclock = RenderEpoch
    /\ rreq = [h \in Handlers |-> NoRequest]
    /\ nreq = 0

NoCalcInput == [none |-> TRUE]
NoCalcOutput == [none |-> TRUE]

CalcGroupInit ==
    /\ cin = NoCalcInput
    /\ cpc = "idle"
    /\ cout = NoCalcOutput

RestInit ==
    LockGroupInit /\ RankGroupInit /\ RenderGroupInit /\ CalcGroupInit

-----------------------------------------------------------------------------
(* SpecCache: get and set on one instance, with a clock *)

CacheKeys == {"k1", "k2"}
CacheValues == {PyList(<<>>), PyList(<<"a">>)}

NoSet == [never |-> TRUE]
NoOp == [op |-> "none"]

HistInit ==
    /\ store = SimpleCache_init(CacheKeys)
    /\ lastSet = [k \in CacheKeys |-> NoSet]
    /\ overwrote = [k \in CacheKeys |-> FALSE]
    /\ firstSetAt = [k \in CacheKeys |-> -1]
    /\ lastOp = NoOp

CacheInit ==
    /\ clock = 0
    /\ HistInit
    /\ newsUrl = "missing"
    /\ FetchGroupInit
    /\ DashGroupInit
    /\ RestInit

\* time passes
Tick ==
    /\ clock < MaxTime
    /\ clock' = clock + 1
    /\ UNCHANGED <<restVars, dashVars, histVars, fetchVars>>

\* a caller runs cache.set(key, value)
DoSet(key, value) ==
    /\ store' = SimpleCache_set(store, key, value, clock)
    /\ lastSet' = [lastSet EXCEPT ![key] = [val |-> value, at |-> clock]]
    /\ overwrote' = [overwrote EXCEPT ![key] = (store[key] # NoEntry)]
    /\ firstSetAt' = [firstSetAt EXCEPT ![key] =
                         IF lastSet[key] = NoSet THEN -1 ELSE lastSet[key].at]
    /\ lastOp' = [op |-> "set", key |-> key, val |-> value, at |-> clock]
    /\ UNCHANGED <<restVars, dashVars, clock, fetchVars>>

\* a caller runs cache.get(key)
DoGet(key) ==
    LET r == SimpleCache_get(store, key, clock, Ttl) IN
    /\ store' = r.cache
    /\ lastOp' = [op |-> "get", key |-> key, val |-> r.ret, at |-> clock]
    /\ UNCHANGED <<restVars, dashVars, clock, lastSet, overwrote, firstSetAt, fetchVars>>

CacheNext ==
    \/ Tick
    \/ \E k \in CacheKeys, v \in CacheValues : DoSet(k, v)
    \/ \E k \in CacheKeys : DoGet(k)

SpecCache == CacheInit /\ [][CacheNext]_vars

-----------------------------------------------------------------------------
(* SpecFetch: the fetchers of src/data_services.py, run by the threads of   *)
(* the pool of src/app.py:10. A thread is at one of                         *)
(*   idle                       no task                                     *)
(*   cfg                        get_hacker_news reads Config (line 372)     *)
(*   get_lock, get              waiting for / inside the lock of cache.get  *)
(*   net_forecast, net_aqi      get_weather's two requests (116, 141)       *)
(*   net_top, net_best          the two ID-list requests (385, 386)         *)
(*   net_items                  the item lookups (407-412)                  *)
(*   net_ext                    the external feed request (348)             *)
(*   yf_wait, net_yf            waiting for yf_lock / inside yf.download    *)
(*   set_lock, set              waiting for / inside the lock of cache.set  *)
(*   returned, raised           the task is done                            *)
(***************************************************************************)

NetPcs == {"net_forecast", "net_aqi", "net_top", "net_best", "net_items",
           "net_ext", "net_yf"}

DonePcs == {"returned", "raised"}

FetcherNames == {"get_weather", "get_hacker_news", "generate_sparkline"}

\* the cache a call works on
CallCache(cl) ==
    CASE cl.fn = "get_weather"        -> "weather"
      [] cl.fn = "generate_sparkline" -> "finance"
      [] cl.fn = "get_hacker_news"    -> "news"

\* the first position of a fetcher
StartPc(fn) == IF fn = "get_hacker_news" THEN "cfg" ELSE "get_lock"

\* where a fetcher goes after a miss (`if cached: return cached` not taken)
AfterMiss(cl) ==
    CASE cl.fn = "get_weather"        -> "net_forecast"
      [] cl.fn = "generate_sparkline" -> "yf_wait"
      [] cl.key = "external"          -> "net_ext"
      [] OTHER                        -> "net_top"

\* a `with lock:` that is left without releasing the lock
LockRelease_leak(l, c) == l

\* leaving `with self.lock:` (lines 27, 38)
LockRelease(l, c) == [l EXCEPT ![c] = NoHolder]

\* a yf_lock that anyone may enter
LockFree_always(l) == TRUE

\* entering `with yf_lock:` or `with self.lock:` blocks until the lock is free
LockFree(l) == l = NoHolder

FetchTick ==
    /\ clock < MaxFetchTime
    /\ clock' = clock + 1
    /\ UNCHANGED <<restVars, dashVars, histVars, fetchVars>>

\* executor.submit(fn, ...) and a free thread taking the task; the submitter
\* then waits in future.result(timeout=...)
Submit(t, fn, sym) ==
    /\ pc[t] = "idle"
    /\ ncalls < MaxCalls
    /\ ncalls' = ncalls + 1
    /\ call' = [call EXCEPT ![t] =
                  [fn |-> fn,
                   key |-> CASE fn = "get_weather" -> "weather_data"
                             [] fn = "generate_sparkline" -> sym
                             [] OTHER -> "hn_top10",
                   val |-> PyNone, fc |-> "", top |-> ""]]
    /\ pc' = [pc EXCEPT ![t] = StartPc(fn)]
    /\ waiter' = [waiter EXCEPT ![t] = "waiting"]
    /\ UNCHANGED <<restVars, dashVars, clock, histVars, newsUrl, caches, locks, yf_lock,
                   abandonedWrite>>

\* get_hacker_news, lines 372-375
ReadNewsConfig(t) ==
    /\ pc[t] = "cfg"
    /\ \/ /\ newsUrl = "missing"
          /\ pc' = [pc EXCEPT ![t] = "raised"]
          /\ call' = call
       \/ /\ newsUrl = "url"
          /\ pc' = [pc EXCEPT ![t] = "get_lock"]
          /\ call' = [call EXCEPT ![t].key = "external"]
       \/ /\ newsUrl = ""
          /\ pc' = [pc EXCEPT ![t] = "get_lock"]
          /\ call' = call
    /\ UNCHANGED <<restVars, dashVars, clock, histVars, newsUrl, caches, locks, yf_lock, waiter,
                   ncalls, abandonedWrite>>

\* `with self.lock:` of SimpleCache.get and SimpleCache.set
AcquireCacheLock(t) ==
    /\ pc[t] \in {"get_lock", "set_lock"}
    /\ LockFree(locks[CallCache(call[t])])
    /\ locks' = [locks EXCEPT ![CallCache(call[t])] = t]
    /\ pc' = [pc EXCEPT ![t] = IF pc[t] = "get_lock" THEN "get" ELSE "set"]
    /\ UNCHANGED <<restVars, dashVars, clock, histVars, newsUrl, caches, yf_lock, call, waiter,
                   ncalls, abandonedWrite>>

\* cached = cache.get(key); if cached: return cached
\* (lines 85-86, 344-345, 375-376, 553-554)
CacheGetStep(t) ==
    LET c == CallCache(call[t])
        k == call[t].key
        r == SimpleCache_get(caches[c], k, clock, FetchTtl)
    IN
    /\ pc[t] = "get"
    /\ caches' = [caches EXCEPT ![c] = r.cache]
    /\ locks' = LockRelease(locks, c)
    /\ call' = [call EXCEPT ![t].val = IF Truthy(r.ret) THEN r.ret ELSE PyNone]
    /\ pc' = [pc EXCEPT ![t] = IF Truthy(r.ret) THEN "returned"
                               ELSE AfterMiss(call[t])]
    /\ UNCHANGED <<restVars, dashVars, clock, histVars, newsUrl, yf_lock, waiter, ncalls,
                   abandonedWrite>>

\* get_weather, lines 104-131 and 335-337: the forecast request ends
WeatherForecast(t) ==
    /\ pc[t] = "net_forecast"
    /\ \E fc \in ForecastOutcomes :
          IF fc = "fail"
          THEN /\ call' = [call EXCEPT ![t].fc = fc,
                                       ![t].val = get_weather_data(fc, "fail")]
               /\ pc' = [pc EXCEPT ![t] = "returned"]
          ELSE /\ call' = [call EXCEPT ![t].fc = fc]
               /\ pc' = [pc EXCEPT ![t] = "net_aqi"]
    /\ UNCHANGED <<restVars, dashVars, clock, histVars, newsUrl, caches, locks, yf_lock, waiter,
                   ncalls, abandonedWrite>>

\* get_weather, lines 133-337: the air-quality request ends and the rest of
\* the response is parsed
WeatherAqi(t) ==
    /\ pc[t] = "net_aqi"
    /\ \E aq \in AqiOutcomes :
          call' = [call EXCEPT ![t].val = get_weather_data(call[t].fc, aq)]
    /\ pc' = [pc EXCEPT ![t] = IF WeatherStores(call[t].fc) THEN "set_lock"
                               ELSE "returned"]
    /\ UNCHANGED <<restVars, dashVars, clock, histVars, newsUrl, caches, locks, yf_lock, waiter,
                   ncalls, abandonedWrite>>

\* get_hacker_news, line 385: the top-list request ends
NewsTop(t) ==
    /\ pc[t] = "net_top"
    /\ \E o \in RequestOutcomes :
          IF o = "raise"
          THEN /\ call' = [call EXCEPT ![t].top = o, ![t].val = NewsFailed]
               /\ pc' = [pc EXCEPT ![t] = HnFailurePc(o)]
          ELSE /\ call' = [call EXCEPT ![t].top = o]
               /\ pc' = [pc EXCEPT ![t] = "net_best"]
    /\ UNCHANGED <<restVars, dashVars, clock, histVars, newsUrl, caches, locks, yf_lock, waiter,
                   ncalls, abandonedWrite>>

\* get_hacker_news, lines 386-389: the best-list request ends
NewsBest(t) ==
    /\ pc[t] = "net_best"
    /\ \E o \in RequestOutcomes :
          IF o = "raise" \/ o = "not_ok" \/ call[t].top = "not_ok"
          THEN /\ call' = [call EXCEPT ![t].fc = o, ![t].val = NewsFailed]
               /\ pc' = [pc EXCEPT ![t] = HnFailurePc(o)]
          ELSE /\ call' = call
               /\ pc' = [pc EXCEPT ![t] = "net_items"]
    /\ UNCHANGED <<restVars, dashVars, clock, histVars, newsUrl, caches, locks, yf_lock, waiter,
                   ncalls, abandonedWrite>>

\* get_hacker_news, lines 391-538: the item lookups end and the list is ranked
\* (an exception, e.g. of .json(), goes to line 543)
NewsItems(t) ==
    /\ pc[t] = "net_items"
    /\ \/ /\ call' = [call EXCEPT ![t].val = NewsFailed]
          /\ pc' = [pc EXCEPT ![t] = "returned"]
       \/ \E lst \in HnLists :
             /\ call' = [call EXCEPT ![t].val = lst]
             /\ pc' = [pc EXCEPT ![t] = "set_lock"]
    /\ UNCHANGED <<restVars, dashVars, clock, histVars, newsUrl, caches, locks, yf_lock, waiter,
                   ncalls, abandonedWrite>>

\* get_external_news, lines 347-367: the feed request ends
ExternalFeed(t) ==
    /\ pc[t] = "net_ext"
    /\ \E o \in FeedOutcomes :
          IF o \in {"raise", "not_ok"}
          THEN /\ call' = [call EXCEPT ![t].fc = o, ![t].val = NewsFailed]
               /\ pc' = [pc EXCEPT ![t] = "returned"]
          ELSE /\ call' = [call EXCEPT
                             ![t].fc = o,
                             ![t].val = PyList(ExternalDisplay(FeedOf(o)))]
               /\ pc' = [pc EXCEPT ![t] = "set_lock"]
    /\ UNCHANGED <<restVars, dashVars, clock, histVars, newsUrl, caches, locks, yf_lock, waiter,
                   ncalls, abandonedWrite>>

\* generate_sparkline, line 557: with yf_lock
AcquireYfLock(t) ==
    /\ pc[t] = "yf_wait"
    /\ LockFree(yf_lock)
    /\ yf_lock' = t
    /\ pc' = [pc EXCEPT ![t] = "net_yf"]
    /\ UNCHANGED <<restVars, dashVars, clock, histVars, newsUrl, caches, locks, call, waiter,
                   ncalls, abandonedWrite>>

\* generate_sparkline, lines 558-592: yf.download ends, yf_lock is released
\* and the result is computed
YfDownload(t) ==
    /\ pc[t] = "net_yf"
    /\ yf_lock' = IF yf_lock = t THEN NoHolder ELSE yf_lock
    /\ \E o \in YfOutcomes, q \in FinanceQuotes :
          /\ call' = [call EXCEPT ![t].fc = o,
                                  ![t].val = generate_sparkline_result(o, q)]
          /\ pc' = [pc EXCEPT ![t] = IF SparklineStores(o) THEN "set_lock"
                                     ELSE "returned"]
    /\ UNCHANGED <<restVars, dashVars, clock, histVars, newsUrl, caches, locks, waiter, ncalls,
                   abandonedWrite>>

\* cache.set(key, value); return value (lines 332-333, 363-364, 540-541,
\* 588-589)
CacheSetStep(t) ==
    LET c == CallCache(call[t])
        k == call[t].key
    IN
    /\ pc[t] = "set"
    /\ caches' = [caches EXCEPT ![c] =
                     SimpleCache_set(caches[c], k, call[t].val, clock)]
    /\ locks' = LockRelease(locks, c)
    /\ abandonedWrite' = [abandonedWrite EXCEPT ![c][k] =
                             (waiter[t] = "timedout")]
    /\ pc' = [pc EXCEPT ![t] = "returned"]
    /\ UNCHANGED <<restVars, dashVars, clock, histVars, newsUrl, yf_lock, call, waiter, ncalls>>

\* future.result(timeout=...) of the submitter raises TimeoutError: the task
\* is not done (app.py:38-59), being in a request or waiting for yf_lock (the
\* steps that take time). The task is not cancelled; its thread goes on.
WaitTimeout(t) ==
    /\ waiter[t] = "waiting"
    /\ pc[t] \in NetPcs \cup {"yf_wait"}
    /\ waiter' = [waiter EXCEPT ![t] = "timedout"]
    /\ UNCHANGED <<restVars, dashVars, clock, histVars, newsUrl, caches, locks, yf_lock, pc, call,
                   ncalls, abandonedWrite>>

\* the task is done: its future holds the result or the exception (for a
\* submitter still waiting, future.result returns) and the thread is free
Retire(t) ==
    /\ pc[t] \in DonePcs
    /\ pc' = [pc EXCEPT ![t] = "idle"]
    /\ call' = [call EXCEPT ![t] = NoCall]
    /\ waiter' = [waiter EXCEPT ![t] = NoWait]
    /\ UNCHANGED <<restVars, dashVars, clock, histVars, newsUrl, caches, locks, yf_lock, ncalls,
                   abandonedWrite>>

FetchInit ==
    /\ clock = 0
    /\ HistInit
    /\ newsUrl \in NewsUrlConfigs
    /\ FetchGroupInit
    /\ DashGroupInit
    /\ RestInit

FetchNext ==
    \/ FetchTick
    \/ \E t \in Workers :
          \/ \E fn \in FetcherNames, sym \in Symbols :
                /\ fn # "generate_sparkline" => sym = Tickers[1].symbol
                /\ Submit(t, fn, sym)
          \/ ReadNewsConfig(t)
          \/ AcquireCacheLock(t)
          \/ CacheGetStep(t)
          \/ WeatherForecast(t)
          \/ WeatherAqi(t)
          \/ NewsTop(t)
          \/ NewsBest(t)
          \/ NewsItems(t)
          \/ ExternalFeed(t)
          \/ AcquireYfLock(t)
          \/ YfDownload(t)
          \/ CacheSetStep(t)
          \/ WaitTimeout(t)
          \/ Retire(t)

SpecFetch == FetchInit /\ [][FetchNext]_vars

-----------------------------------------------------------------------------
(* SpecLock: the threads of the pool calling get and set on one SimpleCache  *)
(* instance, src/data_services.py:26-39, statement by statement. A thread   *)
(* is at one of                                                             *)
(*   idle     in no call                                                    *)
(*   enter    at `with self.lock:`, waiting for the lock                    *)
(*   lookup   in get, before item = self.cache.get(key)          (line 28)  *)
(*   check    in get, before the test of the timestamp       (lines 29-35)  *)
(*   store    in set, before self.cache[key] = (value, now)      (line 39)  *)
(***************************************************************************)

\* the positions inside `with self.lock:`
InsidePcs == {"lookup", "check", "store"}

\* the not-touched variables of a SpecLock step
lockOthers ==
    <<overwrote, firstSetAt, fetchVars, dashVars, rankVars, renderVars,
      calcVars>>

\* a thread calls cache.get(key)
CallGet(t, key) ==
    /\ tpc[t] = "idle"
    /\ tpc' = [tpc EXCEPT ![t] = "enter"]
    /\ tloc' = [tloc EXCEPT ![t] = [op |-> "get", key |-> key,
                                    value |-> PyNone, item |-> NoEntry]]
    /\ UNCHANGED <<clock, store, lastSet, lastOp, lock, lockOthers>>

\* a thread calls cache.set(key, value)
CallSet(t, key, value) ==
    /\ tpc[t] = "idle"
    /\ tpc' = [tpc EXCEPT ![t] = "enter"]
    /\ tloc' = [tloc EXCEPT ![t] = [op |-> "set", key |-> key,
                                    value |-> value, item |-> NoEntry]]
    /\ UNCHANGED <<clock, store, lastSet, lastOp, lock, lockOthers>>

\* with self.lock: (lines 27, 38)
EnterLock(t) ==
    /\ tpc[t] = "enter"
    /\ LockFree(lock)
    /\ lock' = t
    /\ tpc' = [tpc EXCEPT ![t] = IF tloc[t].op = "get" THEN "lookup"
                                 ELSE "store"]
    /\ UNCHANGED <<clock, store, lastSet, lastOp, tloc, lockOthers>>

\* item = self.cache.get(key) (line 28)
GetLookup(t) ==
    /\ tpc[t] = "lookup"
    /\ tloc' = [tloc EXCEPT ![t].item = store[tloc[t].key]]
    /\ tpc' = [tpc EXCEPT ![t] = "check"]
    /\ UNCHANGED <<clock, store, lastSet, lastOp, lock, lockOthers>>

\* lines 29-35: return val of a live item, del self.cache[key] of an expired
\* one, return None; the lock is released on the way out. lastOp keeps what
\* was returned, the item it came from and the last set on the key.
GetCheck(t) ==
    LET key == tloc[t].key
        item == tloc[t].item
        live == item # NoEntry /\ SimpleCache_live(item, clock, Ttl)
    IN
    /\ tpc[t] = "check"
    /\ store' = IF item # NoEntry /\ ~live
                THEN [store EXCEPT ![key] = NoEntry]
                ELSE store
    /\ lastOp' = [op |-> "get", key |-> key,
                  val |-> IF live THEN item.val ELSE PyNone,
                  item |-> item, set |-> lastSet[key]]
    /\ lock' = IF lock = t THEN NoHolder ELSE lock
    /\ tpc' = [tpc EXCEPT ![t] = "idle"]
    /\ tloc' = [tloc EXCEPT ![t] = NoLocals]
    /\ UNCHANGED <<clock, lastSet, lockOthers>>

\* self.cache[key] = (value, time.time()) (line 39), and the lock is released
SetStore(t) ==
    LET key == tloc[t].key
        value == tloc[t].value
    IN
    /\ tpc[t] = "store"
    /\ store' = SimpleCache_set(store, key, value, clock)
    /\ lastSet' = [lastSet EXCEPT ![key] = [val |-> value, at |-> clock]]
    /\ lastOp' = [op |-> "set", key |-> key, val |-> value]
    /\ lock' = IF lock = t THEN NoHolder ELSE lock
    /\ tpc' = [tpc EXCEPT ![t] = "idle"]
    /\ tloc' = [tloc EXCEPT ![t] = NoLocals]
    /\ UNCHANGED <<clock, lockOthers>>

\* time passes
LockTick ==
    /\ clock < LockMaxTime
    /\ clock' = clock + 1
    /\ UNCHANGED <<store, lastSet, lastOp, lockVars, lockOthers>>

LockInit == CacheInit

LockNext ==
    \/ LockTick
    \/ \E t \in Workers :
          \/ \E k \in CacheKeys : CallGet(t, k)
          \/ \E k \in CacheKeys, v \in CacheValues : CallSet(t, k, v)
          \/ EnterLock(t)
          \/ GetLookup(t)
          \/ GetCheck(t)
          \/ SetStore(t)

SpecLock == LockInit /\ [][LockNext]_vars

-----------------------------------------------------------------------------
(* SpecDash: one run of dashboard(), src/app.py:22-83. The six tasks run on  *)
(* the pool; each ends with one of the results its fetcher can give.        *)

\* How the task of a future can end, by the code of its fetcher:
\*   get_weather        returns weather_data, whatever failed (lines 335-337)
\*   get_calendar_info  returns its dict, or raises (it has no try around
\*                      ZoneInfo(Config.TIMEZONE) and LunarDate, lines 601-602)
\*   get_hacker_news    raises at line 372 when Config has no
\*                      NEWS_EXTERNAL_URL; else [] on failure or the list
\*   generate_sparkline (None, "--", 0) on failure or the quote
TaskOutcomes(d) ==
    CASE d = "weather" ->
            {Returned(get_weather_data(fc, aq),
                      IF fc = "ok" THEN "ok" ELSE "failed") :
                 fc \in ForecastOutcomes, aq \in AqiOutcomes}
      [] d = "calendar" ->
            {Returned(c, "ok") : c \in CalendarInfos} \cup {Raised}
      [] d = "news" ->
            IF newsUrl = "missing" THEN {Raised}
            ELSE {Returned(NewsFailed, "failed")} \cup
                 {Returned(lst, "ok") :
                      lst \in IF newsUrl = "url" THEN ExternalLists ELSE HnLists}
      [] OTHER ->
            {Returned(FinanceFailed, "failed")} \cup
            {Returned(q, "ok") : q \in FinanceQuotes}

\* "BTC" in t['name'] (line 65)
HasBTC(name) == name = "BTC/USD"

\* x / unit rounded to the nearest integer, ties to even
RoundDiv(x, unit) ==
    LET q == x \div unit
        r == x % unit
    IN IF 2 * r > unit \/ (2 * r = unit /\ q % 2 = 1) THEN q + 1 ELSE q

\* lines 62-69: the price string. The price is "--" or a number in 1/100000;
\* f"{price:,.0f}" gives the rounded integer with thousands grouping,
\* f"{price:.4f}" four decimals (here in 1/10000). The BTC branch has no try:
\* a price that is neither "--" nor a number raises there, and is str(price)
\* in the other branch.
FormatPrice(name, price) ==
    IF price = [str |-> "--"] THEN [str |-> "--"]
    ELSE IF HasBTC(name)
         THEN IF "num" \in DOMAIN price
              THEN [grouped0 |-> RoundDiv(price.num, 100000)]
              ELSE [exc |-> "ValueError"]
         ELSE IF "num" \in DOMAIN price
              THEN [fixed4 |-> RoundDiv(price.num, 10)]
              ELSE price

\* lines 71-76: the dict appended to finance_data
FinanceEntry(tk, r) ==
    [name |-> tk.name, price |-> FormatPrice(tk.name, r.price),
     change |-> r.change, chart |-> r.chart]

\* a loop that appends no entry for a ticker without a price
AppendEntry_skipFailed(data, entry) ==
    IF entry.price = [str |-> "--"] THEN data ELSE Append(data, entry)

\* lines 71-76: finance_data.append({...})
AppendEntry(data, entry) == Append(data, entry)

\* what the wait on future d leaves in the locals, from the result r of
\* future.result or the except branch
Local(d, r) == IF d \in Symbols THEN FinanceEntry(TickerOf(d), r) ELSE r

\* an exception that no except clause of dashboard() catches
Uncaught(v) ==
    \/ "exc" \in DOMAIN v
    \/ ("price" \in DOMAIN v /\ "exc" \in DOMAIN v.price)

\* lines 25-35: the six executor.submit calls
DashSubmit ==
    /\ opc = "start"
    /\ task' = [d \in TaskIds |-> Running]
    /\ opc' = "wait"
    /\ widx' = 1
    /\ UNCHANGED <<restVars, cacheVars, fetchVars, got, waited, finance_data>>

\* the task of future d ends, before, during or after the wait on it
TaskFinish(d) ==
    /\ task[d] = Running
    /\ \E o \in TaskOutcomes(d) : task' = [task EXCEPT ![d] = o]
    /\ UNCHANGED <<restVars, cacheVars, fetchVars, opc, widx, got, waited,
                   finance_data>>

\* the value and the next position after the wait on future d gave r
AfterWait(d, r, how) ==
    /\ waited' = [waited EXCEPT ![d] = how]
    /\ IF Uncaught(Local(d, r))
       THEN /\ opc' = "error"
            /\ UNCHANGED <<widx, got, finance_data>>
       ELSE /\ got' = [got EXCEPT ![d] = Local(d, r)]
            /\ finance_data' = IF d \in Symbols
                               THEN AppendEntry(finance_data, Local(d, r))
                               ELSE finance_data
            /\ IF widx = Len(WaitOrder)
               THEN opc' = "render" /\ widx' = widx
               ELSE opc' = "wait" /\ widx' = widx + 1

\* try: x = future.result(timeout=...) with the task done (lines 38-59)
WaitDone ==
    LET d == WaitOrder[widx] IN
    /\ opc = "wait"
    /\ task[d].st \in {"returned", "raised"}
    /\ IF task[d].st = "raised"
       THEN AfterWait(d, WaitResult(TRUE, TRUE, PyNone, FnOf(d)), "raised")
       ELSE AfterWait(d, WaitResult(TRUE, FALSE, task[d].val, FnOf(d)),
                      task[d].how)
    /\ UNCHANGED <<restVars, cacheVars, fetchVars, task>>

\* a future.result() that is given no timeout
WaitTimeoutOf_none(d) == PyNone

\* the timeout= of the future.result of future d, in seconds (lines 39, 45,
\* 50, 57)
WaitTimeoutOf(d) == IF d = "calendar" THEN [secs |-> 5] ELSE [secs |-> 15]

\* the timeout of future.result ends the wait with the task not done (in the
\* executor's queue or running); the task goes on
WaitTimesOut ==
    LET d == WaitOrder[widx] IN
    /\ opc = "wait"
    /\ task[d] = Running
    /\ WaitTimeoutOf(d) # PyNone
    /\ AfterWait(d, WaitResult(FALSE, FALSE, PyNone, FnOf(d)), "timeout")
    /\ UNCHANGED <<restVars, cacheVars, fetchVars, task>>

\* lines 78-83: the arguments of render_template
Snapshot ==
    [weather    |-> got["weather"],
     finance    |-> finance_data,
     calendar   |-> got["calendar"],
     news       |-> got["news"],
     updated_at |-> "HH:MM"]

\* line 78: render_template is called with the snapshot
Render ==
    /\ opc = "render"
    /\ opc' = "done"
    /\ UNCHANGED <<restVars, cacheVars, fetchVars, widx, task, got, waited,
                   finance_data>>

DashInit ==
    /\ clock = 0
    /\ HistInit
    /\ newsUrl \in NewsUrlConfigs
    /\ FetchGroupInit
    /\ DashGroupInit
    /\ RestInit

DashNext ==
    \/ DashSubmit
    \/ \E d \in TaskIds : TaskFinish(d)
    \/ WaitDone
    \/ WaitTimesOut
    \/ Render

SpecDash == DashInit /\ [][DashNext]_vars

\* The thread of the request runs: a statement of dashboard() that can be
\* executed is executed, and a future.result(timeout=...) that can only end
\* by its timeout ends by it. Nothing is assumed about the tasks.
DashFairness ==
    /\ WF_vars(DashSubmit)
    /\ WF_vars(WaitDone)
    /\ WF_vars(WaitTimesOut)
    /\ WF_vars(Render)

SpecDashLive == SpecDash /\ DashFairness

-----------------------------------------------------------------------------
(* SpecRank: get_hacker_news from the two ID lists to display_stories, one  *)
(* run per answer of the API.                                               *)

StoryIds == 1 .. MaxStories

\* story 1: its score, comments, age and title range over the edges of the
\* filter and of the threshold
\* (half an hour, one hour, 12 hours and 12.5 hours old; 49, 50, 80 points
\* with 50 comments, 120 points with 10), and it can be the story whose
\* velocity is 30.0 also in floating point: stamped half an hour ahead of the
\* server's clock, 75 points, a subjective title, 75 * 0.4 / 1.0
ExactThirty ==
    [id |-> 1, score |-> 75, descendants |-> 0, title |-> "Why I left my job",
     age |-> -1]

ProbeItems ==
    {[id |-> 1, score |-> sd[1], descendants |-> sd[2], title |-> ti,
      age |-> ag] :
        sd \in {<<49, 0>>, <<50, 0>>, <<80, 50>>, <<120, 10>>},
        ag \in {1, 2, 24, 25}, ti \in Titles}
    \cup {ExactThirty}

\* story 2: one hour old with 150 points and an event title
HotItem ==
    [id |-> 2, score |-> 150, descendants |-> 0, title |-> "GPT-5 release",
     age |-> 2]

\* the other stories: scores 40, 50, 50, 60, 60, ... and ages of 1, 5, 9 and
\* 13 hours
FillerItem(i) ==
    [id |-> i, score |-> 30 + 10 * (i \div 2), descendants |-> i,
     title |-> "Show HN: a clock",
     age |-> CASE i % 4 = 0 -> 2
               [] i % 4 = 1 -> 10
               [] i % 4 = 2 -> 18
               [] OTHER     -> 26]

Upto(n) == [i \in 1 .. n |-> i]
Downto(n, m) == [i \in 1 .. (n - m + 1) |-> n + 1 - i]

\* topstories.json and beststories.json
TopLists ==
    {<<>>, <<1, 4, 8>>, <<4, 1, 2, 8, 5>>, Downto(12, 1), Upto(MaxStories)}

BestLists ==
    {<<>>, <<2, 6, 7>>, <<5, 1, 9, 2>>, Downto(MaxStories, 1),
     Downto(MaxStories, 12)}

\* the ids whose item lookup fails or gives a deleted or dead item
UnresolvedSets == {{}, {2}, {1, 5, 6}, StoryIds}

\* what fetch_item gives for such an id: None (the request raised, line 403,
\* or the body was null), the stub of a deleted item, or a dead item
FailedLookup(item) ==
    CASE item.id % 3 = 0 -> PyNone
      [] item.id % 3 = 1 -> [id |-> item.id, deleted |-> TRUE, age |-> item.age]
      [] OTHER           -> [id |-> item.id, score |-> item.score,
                             descendants |-> item.descendants,
                             title |-> item.title, age |-> item.age,
                             dead |-> TRUE]

LookedUp(un, item) == IF item.id \in un THEN FailedLookup(item) ELSE item

RankInputs ==
    {[top |-> tp, best |-> bs,
      items |-> [i \in StoryIds |->
                    LookedUp(un, IF i = 1 THEN pr
                                 ELSE IF i = 2 THEN HotItem
                                 ELSE FillerItem(i))]] :
        tp \in TopLists, bs \in BestLists, un \in UnresolvedSets,
        pr \in ProbeItems}

rankOthers ==
    <<cacheVars, fetchVars, dashVars, lockVars, renderVars, calcVars>>

\* lines 391-392
RankIds ==
    /\ rpc = "start"
    /\ rk' = [top_ids |-> Take(rin.top, IdSlice),
              best_ids |-> Take(rin.best, IdSlice)]
    /\ rpc' = "items"
    /\ UNCHANGED <<rin, rankOthers>>

\* lines 395-412: all_ids and the item lookups
RankItems ==
    LET all_ids == ToSet(rk.top_ids \o rk.best_ids) IN
    /\ rpc = "items"
    /\ rk' = [top_ids |-> rk.top_ids, best_ids |-> rk.best_ids,
              items_map |-> ItemsMap(all_ids, rin.items)]
    /\ rpc' = "filter"
    /\ UNCHANGED <<rin, rankOthers>>

\* lines 416-462: the candidates of the top list and their velocity
RankFilter ==
    LET cands == FilterCandidates(rk.top_ids, rk.items_map) IN
    /\ rpc = "filter"
    /\ rk' = [top_ids |-> rk.top_ids, best_ids |-> rk.best_ids,
              items_map |-> WithVelocity(rk.items_map, cands),
              breaking_candidates |-> cands]
    /\ rpc' = "sort"
    /\ UNCHANGED <<rin, rankOthers>>

\* lines 465-472: the candidates by velocity, and the resolved best stories
RankSort ==
    /\ rpc = "sort"
    /\ rk' = [top_ids |-> rk.top_ids, best_ids |-> rk.best_ids,
              items_map |-> rk.items_map,
              breaking_candidates |->
                  SortDesc(rk.breaking_candidates,
                           [i \in StoryIds |->
                               GetOr(rk.items_map[i], "velocity", 0)]),
              best_candidates |-> BestCandidates(rk.best_ids, rk.items_map)]
    /\ rpc' = "breaker"
    /\ UNCHANGED <<rin, rankOthers>>

\* lines 475-496: the first candidate is promoted when its velocity is over
\* the threshold
RankBreaker ==
    LET bc == rk.breaking_candidates
        promote == bc # <<>> /\ OverThreshold(rk.items_map[bc[1]].velocity)
    IN
    /\ rpc = "breaker"
    /\ rk' = [top_ids |-> rk.top_ids, best_ids |-> rk.best_ids,
              breaking_candidates |-> bc,
              best_candidates |-> rk.best_candidates,
              items_map |-> IF promote
                            THEN [rk.items_map EXCEPT ![bc[1]] =
                                     SetField(@, "is_breaking", TRUE)]
                            ELSE rk.items_map,
              final_list |-> IF promote THEN <<bc[1]>> ELSE <<>>,
              seen_ids |-> IF promote THEN {bc[1]} ELSE {},
              has_breaking |-> promote]
    /\ rpc' = "best"
    /\ UNCHANGED <<rin, rankOthers>>

\* the locals that FillFrom works on, put back into rk
Filled(st) ==
    [rk EXCEPT !.items_map = st.items_map, !.final_list = st.final_list,
               !.seen_ids = st.seen_ids]

FillState ==
    [items_map |-> rk.items_map, final_list |-> rk.final_list,
     seen_ids |-> rk.seen_ids]

\* lines 499-504: the best stories
RankFillBest ==
    /\ rpc = "best"
    /\ rk' = Filled(FillFrom(FillState, rk.best_candidates))
    /\ rpc' = "more"
    /\ UNCHANGED <<rin, rankOthers>>

\* lines 507-524: when the list is short of 10, the candidates that are left,
\* and when it is still short, the resolved top stories by score
RankFillMore ==
    LET st1 == FillFrom(FillState, rk.breaking_candidates)
        sorted_top == SortedTop(rk.top_ids, rk.items_map)
    IN
    /\ rpc = "more"
    /\ rk' = IF Len(rk.final_list) < NewsCap
             THEN IF Len(st1.final_list) < NewsCap
                  THEN Filled(FillFrom(st1, sorted_top))
                  ELSE Filled(st1)
             ELSE rk
    /\ rpc' = "format"
    /\ UNCHANGED <<rin, rankOthers>>

\* lines 527-538: display_stories
RankFormat ==
    /\ rpc = "format"
    /\ rk' = SetField(rk, "display_stories",
                       [i \in DOMAIN rk.final_list |->
                           DisplayStory(rk.items_map[rk.final_list[i]])])
    /\ rpc' = "done"
    /\ UNCHANGED <<rin, rankOthers>>

RankInit ==
    /\ clock = 0
    /\ HistInit
    /\ newsUrl = ""
    /\ FetchGroupInit
    /\ DashGroupInit
    /\ LockGroupInit
    /\ RenderGroupInit
    /\ CalcGroupInit
    /\ rin \in RankInputs
    /\ rpc = "start"
    /\ rk = NoRanking

RankNext ==
    \/ RankIds
    \/ RankItems
    \/ RankFilter
    \/ RankSort
    \/ RankBreaker
    \/ RankFillBest
    \/ RankFillMore
    \/ RankFormat

SpecRank == RankInit /\ [][RankNext]_vars

-----------------------------------------------------------------------------
(* SpecRender: render_dashboard of src/app.py:85-136, statement by          *)
(* statement, in the request threads of the server. A request is            *)
(*   check        current_time read (line 91), before the test of line 114  *)
(*   serve        the test passed, before prepare_response of line 116      *)
(*   render       the test failed, before render_dashboard_to_bytes         *)
(*   store_data   image_bytes read (line 124), before line 127              *)
(*   store_ts     before line 128                                           *)
(*   done         the response is made                                      *)

\* app.py:20
CACHE_DURATION == 60

renderOthers == <<cacheVars, fetchVars, dashVars, lockVars, rankVars, calcVars>>

\* a test that takes an image of exactly CACHE_DURATION seconds as fresh
RenderFresh_le(cache, current_time) ==
    /\ cache.data # NoImage
    /\ current_time - cache.timestamp <= CACHE_DURATION

\* line 114: _render_cache["data"] and
\* (current_time - _render_cache["timestamp"] < CACHE_DURATION)
RenderFresh(cache, current_time) ==
    /\ cache.data # NoImage
    /\ current_time - cache.timestamp < CACHE_DURATION

\* prepare_response(data, timestamp), lines 93-111: the image with
\* Last-Modified made of the timestamp
ImageResponse(data, timestamp) ==
    [status |-> 200, data |-> data, last_modified |-> timestamp]

\* line 136: return f"Error rendering dashboard: {e}", 500
ErrorResponse == [status |-> 500]

\* line 91: current_time = time.time()
ReqReceive(h) ==
    /\ rreq[h].pc = "idle"
    /\ nreq < MaxRequests
    /\ nreq' = nreq + 1
    /\ rreq' = [rreq EXCEPT ![h] =
                  [NoRequest EXCEPT !.pc = "check", !.current_time = rclock,
                                    !.id = nreq + 1]]
    /\ UNCHANGED <<render_cache, rclock, renderOthers>>

\* line 114
ReqCheck(h) ==
    /\ rreq[h].pc = "check"
    /\ rreq' = [rreq EXCEPT ![h].pc =
                  IF RenderFresh(render_cache, rreq[h].current_time)
                  THEN "serve" ELSE "render"]
    /\ UNCHANGED <<render_cache, rclock, nreq, renderOthers>>

\* line 116
ReqServe(h) ==
    /\ rreq[h].pc = "serve"
    /\ rreq' = [rreq EXCEPT
                  ![h].pc = "done",
                  ![h].resp = ImageResponse(render_cache.data,
                                            render_cache.timestamp)]
    /\ UNCHANGED <<render_cache, rclock, nreq, renderOthers>>

\* lines 122-124 and 133-136: the renderer returns the image of this
\* request, or raises (capture_dashboard and process_image_for_kindle
\* re-raise, renderer.py:31, 131)
ReqRender(h) ==
    /\ rreq[h].pc = "render"
    /\ \/ rreq' = [rreq EXCEPT ![h].pc = "store_data",
                               ![h].renders = @ + 1,
                               ![h].image_bytes = [png |-> rreq[h].id]]
       \/ rreq' = [rreq EXCEPT ![h].pc = "done",
                               ![h].renders = @ + 1,
                               ![h].resp = ErrorResponse]
    /\ UNCHANGED <<render_cache, rclock, nreq, renderOthers>>

\* line 127
ReqStoreData(h) ==
    /\ rreq[h].pc = "store_data"
    /\ render_cache' = [render_cache EXCEPT !.data = rreq[h].image_bytes]
    /\ rreq' = [rreq EXCEPT ![h].pc = "store_ts"]
    /\ UNCHANGED <<rclock, nreq, renderOthers>>

\* lines 128-130
ReqStoreTimestamp(h) ==
    /\ rreq[h].pc = "store_ts"
    /\ render_cache' = [render_cache EXCEPT
                          !.timestamp = rreq[h].current_time]
    /\ rreq' = [rreq EXCEPT
                  ![h].pc = "done",
                  ![h].resp = ImageResponse(rreq[h].image_bytes,
                                            rreq[h].current_time)]
    /\ UNCHANGED <<rclock, nreq, renderOthers>>

\* the response is sent and the thread is free
ReqEnd(h) ==
    /\ rreq[h].pc = "done"
    /\ rreq' = [rreq EXCEPT ![h] = NoRequest]
    /\ UNCHANGED <<render_cache, rclock, nreq, renderOthers>>

RenderTick ==
    /\ rclock + RenderStep <= RenderEpoch + RenderMaxTime
    /\ rclock' = rclock + RenderStep
    /\ UNCHANGED <<render_cache, rreq, nreq, renderOthers>>

RenderInit == CacheInit

RenderNext ==
    \/ RenderTick
    \/ \E h \in Handlers :
          \/ ReqReceive(h)
          \/ ReqCheck(h)
          \/ ReqServe(h)
          \/ ReqRender(h)
          \/ ReqStoreData(h)
          \/ ReqStoreTimestamp(h)
          \/ ReqEnd(h)

SpecRender == RenderInit /\ [][RenderNext]_vars

-----------------------------------------------------------------------------
(* Dates and times as datetime.datetime and datetime.date keep them: year,  *)
(* month, day, hour, minute; a date has hour 0 and minute 0.                *)

Dt(y, mo, d, h, mi) ==
    [year |-> y, month |-> mo, day |-> d, hour |-> h, minute |-> mi]

IsLeap(y) == (y % 4 = 0 /\ y % 100 # 0) \/ y % 400 = 0

DaysIn(y, mo) ==
    CASE mo \in {4, 6, 9, 11} -> 30
      [] mo = 2               -> IF IsLeap(y) THEN 29 ELSE 28
      [] OTHER                -> 31

\* dt + timedelta(days=1)
NextDay(dt) ==
    IF dt.day < DaysIn(dt.year, dt.month)
    THEN [dt EXCEPT !.day = @ + 1]
    ELSE IF dt.month < 12
         THEN [dt EXCEPT !.month = @ + 1, !.day = 1]
         ELSE [dt EXCEPT !.year = @ + 1, !.month = 1, !.day = 1]

RECURSIVE AddDays(_, _)
\* dt + timedelta(days=k), k >= 0
AddDays(dt, k) == IF k = 0 THEN dt ELSE AddDays(NextDay(dt), k - 1)

\* dt + timedelta(hours=n), n >= 0
AddHours(dt, n) ==
    LET total == dt.hour + n IN
    [AddDays(dt, total \div 24) EXCEPT !.hour = total % 24]

\* dt.replace(hour=h, minute=0, second=0, microsecond=0)
ReplaceHour(dt, h) == [dt EXCEPT !.hour = h, !.minute = 0]

\* dt.replace(minute=0, second=0, microsecond=0)
FloorHour(dt) == [dt EXCEPT !.minute = 0]

\* a < b of two datetimes
DtLess(a, b) ==
    LET ka == <<a.year, a.month, a.day, a.hour, a.minute>>
        kb == <<b.year, b.month, b.day, b.hour, b.minute>>
    IN \E i \in 1 .. 5 :
          /\ ka[i] < kb[i]
          /\ \A j \in 1 .. (i - 1) : ka[j] = kb[j]

\* the same calendar day
SameDate(a, b) == a.year = b.year /\ a.month = b.month /\ a.day = b.day

\* date.weekday(): Monday is 0; 2024-01-01 was a Monday
RECURSIVE DaysSince2024(_)
DaysSince2024(dt) ==
    IF dt.year = 2024 /\ dt.month = 1
    THEN dt.day - 1
    ELSE IF dt.month = 1
         THEN 31 + DaysSince2024([dt EXCEPT !.year = @ - 1, !.month = 12])
         ELSE DaysIn(dt.year, dt.month - 1)
                  + DaysSince2024([dt EXCEPT !.month = @ - 1])

Weekday(dt) == DaysSince2024(dt) % 7

\* the hourly series of the forecast response: hourly.time, one entry per
\* hour from 00:00 of the first day
HourlySeries(first, len) == [i \in 1 .. len |-> AddHours(first, i - 1)]

-----------------------------------------------------------------------------
(* SpecSlot: the three forecast slots of get_weather,                       *)
(* src/data_services.py:176-239, for one forecast response.                 *)

\* what the computation is given: current.time of the response, the work
\* hours of the configuration, and the length of the hourly series
SlotNows ==
    {Dt(d[1], d[2], d[3], h, mi) :
        d \in {<<2025, 6, 15>>, <<2024, 12, 31>>, <<2024, 2, 28>>},
        h \in 0 .. 23, mi \in {0, 45}}

WorkHours == {0, 8, 10, 18, 23}

SlotInputs ==
    {[now |-> n, work_start |-> ws, work_end |-> we, hourly_len |-> ln] :
        n \in SlotNows, ws \in WorkHours, we \in WorkHours,
        ln \in {MaxHourly, 24}}

calcOthers ==
    <<cacheVars, fetchVars, dashVars, lockVars, rankVars, renderVars>>

\* a third slot as a reader of "snaps to a boundary outside the work hours"
\* has it: the naive hour inside the work hours, the start before them, the
\* naive hour after them
SmartSlot_naiveInside(t3_candidate, ws, we) ==
    IF t3_candidate.hour < ws THEN ReplaceHour(t3_candidate, ws)
    ELSE t3_candidate

\* lines 203-216: work_start and work_end are on the day of t3_candidate
SmartSlot(t3_candidate, ws, we) ==
    LET work_start == ReplaceHour(t3_candidate, ws)
        work_end == ReplaceHour(t3_candidate, we)
    IN IF DtLess(t3_candidate, work_start) THEN work_start
       ELSE IF DtLess(t3_candidate, work_end) THEN work_end
       ELSE t3_candidate

\* lines 183-188: get_data_for_time, the index of the hour in the hourly
\* series or -1
get_data_for_time(times, target_dt) ==
    LET hits == {i \in DOMAIN times :
                    /\ SameDate(times[i], target_dt)
                    /\ times[i].hour = target_dt.hour}
    IN IF hits = {} THEN -1
       ELSE (CHOOSE i \in hits : \A j \in hits : i <= j) - 1

\* lines 220-237: the forecast item of a target; the label is
\* strftime("%H:00"), here the hour
ForecastItem(times, tgt) ==
    LET idx == get_data_for_time(times, tgt) IN
    IF idx # -1
    THEN [label |-> tgt.hour, icon |-> "icon", temp |-> "temp",
          desc |-> "desc"]
    ELSE [label |-> tgt.hour, icon |-> "02d", temp |-> "--", desc |-> "N/A"]

\* lines 176-201: now_dt, t1, t2, t3_candidate
SlotTargets ==
    LET now_dt == cin.now IN
    /\ cpc = "slot_start"
    /\ cout' = [now_dt |-> now_dt,
                targets |-> <<FloorHour(AddHours(now_dt, 1)),
                              FloorHour(AddHours(now_dt, 2))>>,
                t3_candidate |-> FloorHour(AddHours(now_dt, 3))]
    /\ cpc' = "slot_smart"
    /\ UNCHANGED <<cin, calcOthers>>

\* lines 203-218
SlotSmart ==
    LET t3 == SmartSlot(cout.t3_candidate, cin.work_start, cin.work_end) IN
    /\ cpc = "slot_smart"
    /\ cout' = [cout EXCEPT !.targets = Append(@, t3)]
    /\ cpc' = "slot_items"
    /\ UNCHANGED <<cin, calcOthers>>

\* lines 220-239
SlotItems ==
    LET times == HourlySeries(ReplaceHour(cin.now, 0), cin.hourly_len) IN
    /\ cpc = "slot_items"
    /\ cout' = SetField(cout, "forecast",
                        [i \in DOMAIN cout.targets |->
                            ForecastItem(times, cout.targets[i])])
    /\ cpc' = "slot_done"
    /\ UNCHANGED <<cin, calcOthers>>

SlotInit ==
    /\ clock = 0
    /\ HistInit
    /\ newsUrl = ""
    /\ FetchGroupInit
    /\ DashGroupInit
    /\ LockGroupInit
    /\ RankGroupInit
    /\ RenderGroupInit
    /\ cin \in SlotInputs
    /\ cpc = "slot_start"
    /\ cout = NoCalcOutput

SlotNext == SlotTargets \/ SlotSmart \/ SlotItems

SpecSlot == SlotInit /\ [][SlotNext]_vars

-----------------------------------------------------------------------------
(* SpecAlert: the weather alert of get_weather,                             *)
(* src/data_services.py:266-330, for one forecast response (LANGUAGE = EN). *)

\* the weather code of an hour without an event (overcast), and the codes
\* an event of the inputs can have: rain, snow, thunderstorm, drizzle, and
\* freezing drizzle, which is in none of the lists of lines 286-293
CalmCode == 3
EventCodes == {61, 71, 95, 51, 56}

\* the hour offsets from now at which the inputs put their first event
EventOffsets == {1, 2, 3, 4, 5, 8, 13, 14, 24, 25, 37, 47, 48, 49}

AlertNows ==
    {Dt(d[1], d[2], d[3], h, 15) :
        d \in {<<2025, 6, 15>>, <<2025, 1, 31>>, <<2024, 12, 31>>,
               <<2024, 2, 28>>},
        h \in {0, 10, 21, 23}}

\* hourly.weather_code: it rains in every hour up to the current one; after
\* it the weather is calm but for an event `first` hours from now and, when
\* `second` is set, a thunderstorm two hours later. first = 0: no event.
HourlyCodes(now, len, first, code, second) ==
    [i \in 1 .. len |->
        LET off == i - (now.hour + 1) IN
        IF off <= 0 THEN 61
        ELSE IF off = first THEN code
        ELSE IF second /\ first # 0 /\ off = first + 2 THEN 95
        ELSE CalmCode]

AlertInputs ==
    {[now |-> n, hourly_len |-> ln,
      codes |-> HourlyCodes(n, ln, k, c, sec)] :
        n \in AlertNows, ln \in {MaxHourly, 30},
        k \in EventOffsets \cup {0}, c \in EventCodes,
        sec \in BOOLEAN}

\* lines 286-293
WeatherType(code) ==
    CASE code \in {61, 63, 65, 80, 81, 82, 66, 67} -> "Rain"
      [] code \in {71, 73, 75, 85, 86, 77}         -> "Snow"
      [] code \in {95, 96, 99}                     -> "T-Storm"
      [] code \in {51, 53, 55}                     -> "Drizzle"
      [] OTHER                                     -> "None"

\* lines 270-275: the first index whose hour and day of the month are those
\* of now_dt, or -1
NowHourIdx(times, now_dt) ==
    LET hits == {i \in DOMAIN times :
                    times[i].hour = now_dt.hour /\ times[i].day = now_dt.day}
    IN IF hits = {} THEN -1
       ELSE (CHOOSE i \in hits : \A j \in hits : i <= j) - 1

Min(a, b) == IF a < b THEN a ELSE b

\* lines 278-295: (hours_from_now, weather_type, t_dt) of every hour with a
\* weather type among range(now_hour_idx + 1, min(now_hour_idx + 49, len))
UpcomingAlerts(times, codes, now_hour_idx) ==
    LET max_hours == Min(now_hour_idx + 49, Len(times))
        all == [j \in 1 .. (max_hours - now_hour_idx - 1) |->
                   [hours |-> j,
                    wtype |-> WeatherType(codes[now_hour_idx + j + 1]),
                    t_dt |-> times[now_hour_idx + j + 1]]]
    IN IF max_hours - now_hour_idx - 1 <= 0 THEN <<>>
       ELSE SelectSeq(all, LAMBDA a : a.wtype # "None")

NoAlertMsg == [kind |-> ""]

\* lines 304-323: f"{wtype} in {hours}h", f"{wtype} at {hour}:00",
\* f"{wtype} tom. at {hour}:00"
AlertMsg(first_alert, now_dt) ==
    IF first_alert.hours <= 3
    THEN [kind |-> "in", wtype |-> first_alert.wtype,
          hours |-> first_alert.hours]
    ELSE IF first_alert.t_dt.day = now_dt.day
    THEN [kind |-> "at", wtype |-> first_alert.wtype,
          hour |-> first_alert.t_dt.hour]
    ELSE IF first_alert.t_dt.day = now_dt.day + 1
    THEN [kind |-> "tom. at", wtype |-> first_alert.wtype,
          hour |-> first_alert.t_dt.hour]
    ELSE [kind |-> "in", wtype |-> first_alert.wtype,
          hours |-> first_alert.hours]

\* lines 267-275
AlertFindNow ==
    LET times == HourlySeries(ReplaceHour(cin.now, 0), cin.hourly_len) IN
    /\ cpc = "alert_start"
    /\ cout' = [alert_msg |-> NoAlertMsg, upcoming_alerts |-> <<>>,
                now_hour_idx |-> NowHourIdx(times, cin.now)]
    /\ cpc' = "alert_scan"
    /\ UNCHANGED <<cin, calcOthers>>

\* lines 277-295
AlertScan ==
    LET times == HourlySeries(ReplaceHour(cin.now, 0), cin.hourly_len) IN
    /\ cpc = "alert_scan"
    /\ cout' = [cout EXCEPT !.upcoming_alerts =
                   IF cout.now_hour_idx # -1
                   THEN UpcomingAlerts(times, cin.codes, cout.now_hour_idx)
                   ELSE <<>>]
    /\ cpc' = "alert_phrase"
    /\ UNCHANGED <<cin, calcOthers>>

\* lines 297-328: the message of the first alert, and the fields of
\* weather_data
AlertPhrase ==
    /\ cpc = "alert_phrase"
    /\ cout' = [alert_msg |-> IF cout.upcoming_alerts # <<>>
                              THEN AlertMsg(cout.upcoming_alerts[1], cin.now)
                              ELSE NoAlertMsg,
                upcoming_alerts |-> Take(cout.upcoming_alerts, 5),
                now_hour_idx |-> cout.now_hour_idx]
    /\ cpc' = "alert_done"
    /\ UNCHANGED <<cin, calcOthers>>

AlertInit ==
    /\ clock = 0
    /\ HistInit
    /\ newsUrl = ""
    /\ FetchGroupInit
    /\ DashGroupInit
    /\ LockGroupInit
    /\ RankGroupInit
    /\ RenderGroupInit
    /\ cin \in AlertInputs
    /\ cpc = "alert_start"
    /\ cout = NoCalcOutput

AlertNext == AlertFindNow \/ AlertScan \/ AlertPhrase

SpecAlert == AlertInit /\ [][AlertNext]_vars

-----------------------------------------------------------------------------
(* SpecCalendar: get_calendar_info, src/data_services.py:600-663, for one   *)
(* call (LANGUAGE = EN; the lunar date is left out).                        *)

\* for _ in range(30)
ScanDays == 30

\* the countries the holidays library of the model knows, and their public
\* holidays on fixed dates
LibCountries == {"SG", "CN"}

LibHolidays(country) ==
    CASE country = "SG" ->
           {[month |-> 1, day |-> 1, name |-> "New Year's Day"],
            [month |-> 5, day |-> 1, name |-> "Labour Day"],
            [month |-> 12, day |-> 25, name |-> "Christmas Day"]}
      [] country = "CN" ->
           {[month |-> 1, day |-> 1, name |-> "New Year's Day"],
            [month |-> 5, day |-> 1, name |-> "Labour Day"],
            [month |-> 10, day |-> 1, name |-> "National Day"],
            [month |-> 10, day |-> 2, name |-> "National Day"],
            [month |-> 10, day |-> 3, name |-> "National Day"]}

\* lines 610-618: the table of Config.HOLIDAY_COUNTRY, of SG when the
\* library has no such country
CountryHolidays(country) ==
    IF country \in LibCountries THEN LibHolidays(country)
    ELSE LibHolidays("SG")

\* country_holidays.get(d): the name of the holiday on d, or None
HolidayGet(table, d) ==
    LET hits == {h \in table : h.month = d.month /\ h.day = d.day} IN
    IF hits = {} THEN PyNone
    ELSE [str |-> (CHOOSE h \in hits : TRUE).name]

\* a weekend test that knows Sunday only
IsWeekend_sundayOnly(d) == Weekday(d) >= 6

\* line 625: next_date.weekday() >= 5
IsWeekend(d) == Weekday(d) >= 5

\* (a - b).days of two dates
DaysBetween(a, b) == DaysSince2024(a) - DaysSince2024(b)

\* the days the call can be made on: two weeks over the end of 2024, and the
\* weeks around 29 February 2024, Labour Day 2025 and the National Day
\* holidays of 2025
CalendarDates ==
    {AddDays(Dt(2024, 12, 20, 0, 0), k) : k \in 0 .. 13}
        \cup {AddDays(Dt(2024, 2, 24, 0, 0), k) : k \in 0 .. 6}
        \cup {AddDays(Dt(2025, 4, 27, 0, 0), k) : k \in 0 .. 6}
        \cup {AddDays(Dt(2025, 9, 27, 0, 0), k) : k \in 0 .. 6}

CalendarInputs ==
    {[now |-> [d EXCEPT !.hour = h, !.minute = 30], country |-> c] :
        d \in CalendarDates, h \in {0, 23}, c \in {"SG", "CN", "ZZ"}}

\* lines 601-623
CalStart ==
    /\ cpc = "cal_start"
    /\ cout' = [today_holiday |->
                    HolidayGet(CountryHolidays(cin.country), cin.now),
                next_date |-> NextDay(ReplaceHour(cin.now, 0)),
                next_non_working |-> PyNone,
                examined |-> 0]
    /\ cpc' = "cal_scan"
    /\ UNCHANGED <<cin, calcOthers>>

\* lines 624-647: one iteration of the loop, or its end after 30
CalScan ==
    /\ cpc = "cal_scan"
    /\ IF cout.examined >= ScanDays
       THEN /\ cpc' = "cal_return"
            /\ cout' = cout
       ELSE LET next_date == cout.next_date
                is_weekend == IsWeekend(next_date)
                is_holiday ==
                    HolidayGet(CountryHolidays(cin.country), next_date)
            IN
            IF is_weekend \/ is_holiday # PyNone
            THEN /\ cout' =
                      [cout EXCEPT
                         !.examined = @ + 1,
                         !.next_non_working =
                            [date |-> [month |-> next_date.month,
                                       day |-> next_date.day],
                             name |->
                                IF is_holiday # PyNone THEN is_holiday.str
                                ELSE IF Weekday(next_date) = 5
                                     THEN "Saturday" ELSE "Sunday",
                             days_away |->
                                DaysBetween(next_date, cin.now)]]
                 /\ cpc' = "cal_return"
            ELSE /\ cout' = [cout EXCEPT !.examined = @ + 1,
                                         !.next_date = NextDay(@)]
                 /\ cpc' = "cal_scan"
    /\ UNCHANGED <<cin, calcOthers>>

\* lines 649-663
CalReturn ==
    /\ cpc = "cal_return"
    /\ cout' = [date_str |-> [year |-> cin.now.year,
                              month |-> cin.now.month,
                              day |-> cin.now.day],
                weekday |-> Weekday(cin.now),
                holiday |-> cout.today_holiday,
                next_non_working |-> cout.next_non_working,
                examined |-> cout.examined]
    /\ cpc' = "cal_done"
    /\ UNCHANGED <<cin, calcOthers>>

CalendarInit ==
    /\ clock = 0
    /\ HistInit
    /\ newsUrl = ""
    /\ FetchGroupInit
    /\ DashGroupInit
    /\ LockGroupInit
    /\ RankGroupInit
    /\ RenderGroupInit
    /\ cin \in CalendarInputs
    /\ cpc = "cal_start"
    /\ cout = NoCalcOutput

CalendarNext == CalStart \/ CalScan \/ CalReturn

SpecCalendar == CalendarInit /\ [][CalendarNext]_vars

-----------------------------------------------------------------------------
(* Claims about SimpleCache *)

\* C1: a get(key) at time t after the last set(key, v) at time t0 returns v
\* when t - t0 < ttl and None when t - t0 >= ttl (and None when the key was
\* never set).
C1_GetWithinTtl ==
    lastOp.op = "get" =>
        LET s == lastSet[lastOp.key] IN
        lastOp.val = IF s # NoSet /\ lastOp.at - s.at < Ttl THEN s.val ELSE PyNone

\* C1 witness: a get exactly ttl after the set returned None, the entry having
\* been served before.
C1_Witness ==
    /\ lastOp.op = "get"
    /\ lastSet[lastOp.key] # NoSet
    /\ lastOp.at - lastSet[lastOp.key].at = Ttl
    /\ lastOp.val = PyNone

\* C2: a set on a key that already has an entry (live or expired) replaces the
\* value and the timestamp: right after it the entry is (v2, now), and every
\* get less than ttl after this second set returns v2, whenever the first set
\* happened.
C2_OverwriteResetsAge ==
    /\ lastOp.op = "set" =>
          store[lastOp.key] = Entry(lastOp.val, lastOp.at)
    /\ (lastOp.op = "get" /\ overwrote[lastOp.key]
            /\ lastOp.at - lastSet[lastOp.key].at < Ttl) =>
          lastOp.val = lastSet[lastOp.key].val

\* C2 witness: the second set overwrote an entry, the first set is a full ttl
\* or more in the past, and a get in the last tick of the new window returned
\* the new value.
C2_Witness ==
    /\ lastOp.op = "get"
    /\ overwrote[lastOp.key]
    /\ firstSetAt[lastOp.key] >= 0
    /\ lastOp.at - firstSetAt[lastOp.key] >= Ttl
    /\ lastOp.at - lastSet[lastOp.key].at = Ttl - 1
    /\ lastOp.val = lastSet[lastOp.key].val

-----------------------------------------------------------------------------
(* Claims about the orchestrator *)

\* C3: when the wait on a future timed out, the local of that domain is the
\* documented fallback literal, and stays so when the task ends later:
\* weather has current.temp "--" and an empty forecast, calendar has date_str,
\* weekday and lunar "--", news is the empty list, a finance entry has chart
\* None, price "--" and change 0.
C3_TimeoutGivesFallback ==
    \A d \in TaskIds :
        waited[d] = "timeout" =>
            CASE d = "weather" ->
                    /\ got[d] = WeatherFallback
                    /\ got[d].current.temp = "--"
                    /\ got[d].forecast = <<>>
              [] d = "calendar" ->
                    /\ got[d] = CalendarFallback
                    /\ got[d].date_str = "--"
                    /\ got[d].weekday = "--"
                    /\ got[d].lunar = "--"
              [] d = "news" -> got[d] = PyList(<<>>)
              [] OTHER ->
                    /\ got[d].name = TickerOf(d).name
                    /\ got[d].chart = "None"
                    /\ got[d].price = [str |-> "--"]
                    /\ got[d].change = 0

\* C3 witness: the snapshot is assembled, the waits on weather, calendar, news
\* and a ticker all timed out, and the weather task has since returned a
\* full result.
C3_Witness ==
    /\ opc = "done"
    /\ \A d \in {"weather", "calendar", "news", Tickers[3].symbol} :
          waited[d] = "timeout"
    /\ task["weather"].st = "returned"
    /\ task["weather"].how = "ok"

\* C4: dashboard() ends in no uncaught exception, and the snapshot it hands to
\* the template has weather, calendar, finance (one entry per ticker), news
\* and the time of generation, each assigned.
C4_AlwaysCompleteSnapshot ==
    /\ opc # "error"
    /\ opc \in {"render", "done"} =>
          /\ DOMAIN Snapshot =
                {"weather", "calendar", "finance", "news", "updated_at"}
          /\ Snapshot.weather # Unset
          /\ Snapshot.calendar # Unset
          /\ Snapshot.news # Unset
          /\ Len(Snapshot.finance) = Len(Tickers)
          /\ \A i \in DOMAIN Tickers :
                /\ Snapshot.finance[i] # Unset
                /\ Snapshot.finance[i].name = Tickers[i].name

\* C4 witness: a snapshot assembled from a task that raised, a wait that timed
\* out, a fetch that failed inside its fetcher and a fetch that succeeded.
C4_Witness ==
    /\ opc = "done"
    /\ \E d \in TaskIds : waited[d] = "raised"
    /\ \E d \in TaskIds : waited[d] = "timeout"
    /\ \E d \in TaskIds : waited[d] = "failed"
    /\ \E d \in TaskIds : waited[d] = "ok"

C13_RequestReturns ==
    /\ <>(opc = "done")
    /\ [](\A i \in DOMAIN WaitOrder :
             waited[WaitOrder[i]] # "" <=>
                 (opc \in {"render", "done"} \/ (opc = "wait" /\ i < widx)))
    /\ [](WaitOrder = <<"weather", "calendar", "news",
                        "SGDCNY=X", "CNY=X", "BTC-USD">>)

\* C13 witness: the snapshot is handed over with every wait ended by its
\* timeout and no task done (none started or none finished).
C13_Witness ==
    /\ opc = "done"
    /\ \A d \in TaskIds : waited[d] = "timeout" /\ task[d] = Running

\* the fields of a weather value and of a calendar value that every result of
\* the fetchers has
WeatherFields == DOMAIN WeatherPlaceholder
CurrentFields == DOMAIN WeatherPlaceholder.current
CalendarFields == DOMAIN CalendarInfo(PyNone)

\* C6: the weather and the calendar of an assembled snapshot have every field
\* of a fetched value (weather: location, the current sub-fields, forecast,
\* tomorrow; calendar: date_str, weekday, lunar, holiday, next_non_working),
\* whichever tasks failed or timed out.
C6_FallbackFullySpecified ==
    opc = "done" =>
        /\ DOMAIN Snapshot.weather = WeatherFields
        /\ CurrentFields \subseteq DOMAIN Snapshot.weather.current
        /\ DOMAIN Snapshot.calendar = CalendarFields

-----------------------------------------------------------------------------
(* Claims about the lock of SimpleCache *)

\* C11: under every interleaving of get and set calls of concurrent threads
\* on one SimpleCache instance, two calls are never inside the critical
\* section at once and the thread inside holds the lock; each key has at most
\* one entry, which is the value of one set call with the time of that same
\* call; and a get returns None or the value of such an entry.
C11_MutualExclusion ==
    /\ \A t1, t2 \in Workers :
          (tpc[t1] \in InsidePcs /\ tpc[t2] \in InsidePcs) => t1 = t2
    /\ \A t \in Workers : tpc[t] \in InsidePcs => lock = t
    /\ \A k \in CacheKeys :
          store[k] # NoEntry =>
              /\ lastSet[k] # NoSet
              /\ store[k] = Entry(lastSet[k].val, lastSet[k].at)
    /\ \A t \in Workers :
          tpc[t] = "check" => tloc[t].item = store[tloc[t].key]
    /\ (lastOp.op = "get" /\ lastOp.val # PyNone) =>
          /\ lastOp.set # NoSet
          /\ lastOp.item = Entry(lastOp.set.val, lastOp.set.at)
          /\ lastOp.val = lastOp.set.val

\* C11 witness: a get has read an entry of a key and is inside the lock while
\* a set of another value on the same key waits for the lock, the entry being
\* the second one written to the key.
C11_Witness ==
    \E t1, t2 \in Workers :
        /\ tpc[t1] = "check"
        /\ tloc[t1].item # NoEntry
        /\ tpc[t2] = "enter"
        /\ tloc[t2].op = "set"
        /\ tloc[t2].key = tloc[t1].key
        /\ tloc[t2].value # tloc[t1].item.val
        /\ tloc[t1].item.ts > 0

-----------------------------------------------------------------------------
(* Claims about the ranking *)

\* the two ID lists as get_hacker_news uses them, and the stories of a list
\* that resolved
UsedTop == Take(rin.top, 20)
UsedBest == Take(rin.best, 20)
IsResolved(sid) == KeptItem(rin.items[sid])

\* the resolved stories of either list
Eligible == {sid \in ToSet(UsedTop) \cup ToSet(UsedBest) : IsResolved(sid)}

\* the stories that pass the filter of line 430, and their velocities
PassingTop == {sid \in ToSet(UsedTop) : IsResolved(sid) /\ IsCandidate(rin.items[sid])}
VelocityOf == [sid \in StoryIds |->
                  IF IsResolved(sid) THEN Velocity(rin.items[sid]) ELSE 0]
IsMaxVelocity(sid) ==
    sid \in PassingTop /\ \A o \in PassingTop : VelocityOf[o] <= VelocityOf[sid]

\* the positions of display_stories that carry is_breaking
BreakingAt ==
    {i \in DOMAIN rk.display_stories : rk.display_stories[i].is_breaking}

\* C14: when more than 10 stories of the top and best lists resolved, the
\* ranked list has exactly 10 entries, no story ID twice, and at most one
\* entry with is_breaking.
C14_TenDistinctOneBreaking ==
    (rpc = "done" /\ Cardinality(Eligible) > 10) =>
        LET ds == rk.display_stories IN
        /\ Len(ds) = 10
        /\ \A i, j \in DOMAIN ds : ds[i].id = ds[j].id => i = j
        /\ Cardinality(BreakingAt) <= 1

\* C14 witness: a ranked list of 10 out of 20 resolved stories with a
\* breaking entry that is also in the best list.
C14_Witness ==
    /\ rpc = "done"
    /\ Cardinality(Eligible) = 20
    /\ Len(rk.display_stories) = 10
    /\ BreakingAt = {1}
    /\ rk.display_stories[1].id \in ToSet(UsedBest)

\* C15: the ranked list has an entry with is_breaking if and only if some
\* story passes the candidate filter and the largest velocity among those is
\* strictly over 30; the entry is then at position 0, is the only one, and is
\* a candidate of that largest velocity. A largest velocity of exactly 30
\* promotes nothing.
C15_BreakingIffOverThreshold ==
    rpc = "done" =>
        LET ds == rk.display_stories
            over == \E sid \in PassingTop :
                        IsMaxVelocity(sid) /\ VelocityOf[sid] > 30000
        IN
        /\ (BreakingAt # {}) <=> over
        /\ over => /\ BreakingAt = {1}
                   /\ IsMaxVelocity(ds[1].id)
                   /\ ds[1].velocity = VelocityOf[ds[1].id]

\* C15 witness: the largest velocity among several candidates is exactly 30
\* and the finished list has no breaking entry.
C15_Witness ==
    /\ rpc = "done"
    /\ Cardinality(PassingTop) > 2
    /\ \E sid \in PassingTop : IsMaxVelocity(sid) /\ VelocityOf[sid] = 30000
    /\ BreakingAt = {}
    /\ Len(rk.display_stories) > 2

RECURSIVE DedupIds(_)
\* seq without the later occurrences of an element
DedupIds(seq) ==
    IF seq = <<>> THEN <<>>
    ELSE LET front == DedupIds(SubSeq(seq, 1, Len(seq) - 1))
             last == seq[Len(seq)]
         IN IF last \in ToSet(front) THEN front ELSE Append(front, last)

\* the four parts of the assembly
ByVelocity ==
    SortDesc(SelectSeq(UsedTop, LAMBDA sid : sid \in PassingTop), VelocityOf)
Promoted == ByVelocity # <<>> /\ VelocityOf[ByVelocity[1]] > 30000
BreakingPart == IF Promoted THEN <<ByVelocity[1]>> ELSE <<>>
BestPart == SelectSeq(UsedBest, IsResolved)
ByScore ==
    SortDesc(SelectSeq(UsedTop, IsResolved),
             [sid \in StoryIds |->
                 IF IsResolved(sid) THEN rin.items[sid].score ELSE 0])

\* C16: the ranked list is the first 10 of: the breaking item if promoted,
\* the resolved best stories in the order of the best ID list, the filtered
\* top candidates by descending velocity, the resolved top stories by
\* descending score, with later occurrences of a placed ID removed; only the
\* promoted item carries is_breaking.
C16_AssemblyOrder ==
    rpc = "done" =>
        LET ds == rk.display_stories
            expected == Take(DedupIds(BreakingPart \o BestPart \o ByVelocity
                                      \o ByScore), 10)
        IN
        /\ [i \in DOMAIN ds |-> ds[i].id] = expected
        /\ \A i \in DOMAIN ds : ds[i].is_breaking <=> (Promoted /\ i = 1)

\* C16 witness: a list of 10 that takes from all four parts: the breaking
\* item, best stories, a candidate that is not a best story, and a top story
\* that is no candidate.
C16_Witness ==
    /\ rpc = "done"
    /\ Len(rk.display_stories) = 10
    /\ Promoted
    /\ \E i \in DOMAIN rk.display_stories :
          LET sid == rk.display_stories[i].id IN
          i > 1 /\ sid \in PassingTop /\ sid \notin ToSet(BestPart)
    /\ \E i \in DOMAIN rk.display_stories :
          LET sid == rk.display_stories[i].id IN
          sid \notin PassingTop /\ sid \notin ToSet(BestPart)
    /\ \E i \in DOMAIN rk.display_stories :
          rk.display_stories[i].id \in ToSet(BestPart)

\* the positions at which breaking_candidates is filled
FilteredPcs == {"sort", "breaker", "best", "more", "format", "done"}

ClaimedModifier(title) ==
    CASE HasSubjective(title) /\ HasEvent(title)  -> 60
      [] HasSubjective(title) /\ ~HasEvent(title) -> 40
      [] ~HasSubjective(title) /\ HasEvent(title) -> 150
      [] OTHER                                    -> 100

\* the two examples of the claim
IsExampleOne(item) ==
    /\ item.score = 120 /\ item.descendants = 10 /\ item.age = 1
    /\ item.title = "GPT-5 release"
IsExampleTwo(item) ==
    /\ item.score = 80 /\ item.descendants = 50 /\ item.age = 2
    /\ item.title = "GPT-5 release"

\* C18: the velocity of every candidate is
\* (score + 0.2 * descendants) * m / (age + 1.5)^1.8 with m = 0.4, 1.5, 0.6 or
\* 1.0 by the markers of the title; 120 points, 10 comments, half an hour and
\* an event title give about 52.6, over the threshold, and the story is
\* breaking when no candidate is faster; 80 points, 50 comments, one hour and
\* an event title give about 25.9, and the story is not breaking.
C18_VelocityFormula ==
    rpc \in FilteredPcs =>
        /\ \A sid \in ToSet(rk.breaking_candidates) :
              LET item == rk.items_map[sid] IN
              /\ item.velocity =
                    ((5 * item.score + item.descendants)
                         * ClaimedModifier(item.title) * 2000)
                        \div Pow18(item.age)
              /\ IsExampleOne(item) =>
                    (item.velocity >= 52500 /\ item.velocity < 52700)
              /\ IsExampleTwo(item) =>
                    (item.velocity >= 25850 /\ item.velocity < 26000)
        /\ (rpc = "done" /\ IsResolved(1) /\ 1 \in ToSet(UsedTop)) =>
              /\ (IsExampleOne(rin.items[1]) /\ IsMaxVelocity(1)) =>
                    \E i \in BreakingAt : rk.display_stories[i].id = 1
              /\ IsExampleTwo(rin.items[1]) =>
                    \A i \in BreakingAt : rk.display_stories[i].id # 1

\* C18 witness: the first example ranked and breaking, among candidates with
\* each of the other modifiers.
C18_Witness ==
    /\ rpc = "done"
    /\ IsResolved(1)
    /\ IsExampleOne(rin.items[1])
    /\ Len(rk.display_stories) > 3
    /\ rk.display_stories[1].id = 1
    /\ rk.display_stories[1].is_breaking
    /\ Cardinality(PassingTop) > 3

-----------------------------------------------------------------------------
(* Claims about the fetchers *)

\* the entry cache.get finds for thread t, and whether it is live
FoundItem(t) == caches[CallCache(call[t])][call[t].key]

FoundLive(t) ==
    /\ FoundItem(t) # NoEntry
    /\ SimpleCache_live(FoundItem(t), clock, FetchTtl)

\* thread t leaves cache.get in this step
LeavesGet(t) == pc[t] = "get" /\ pc'[t] # "get"

\* C7: whenever cache.get finds a live entry for the key of a fetcher, the
\* fetcher returns that entry and starts no remote call, whatever the stored
\* value is (the empty news list included).
C7_HitServesEntry ==
    [][\A t \in Workers :
          (LeavesGet(t) /\ FoundLive(t)) =>
              (pc'[t] = "returned" /\ call'[t].val = FoundItem(t).val)]_vars

\* C8: the timeout of the wait leaves the task running as it was (it is not
\* cancelled), and a live entry that a task wrote after its submitter had
\* timed out is returned to a later task without a remote call.
C8_AbandonedTaskFeedsCache ==
    [][\A t \in Workers :
          /\ (waiter[t] = "waiting" /\ waiter'[t] = "timedout") =>
                (pc'[t] = pc[t] /\ call'[t] = call[t])
          /\ (LeavesGet(t) /\ FoundLive(t)
                 /\ abandonedWrite[CallCache(call[t])][call[t].key]) =>
                (pc'[t] = "returned" /\ call'[t].val = FoundItem(t).val)]_vars

\* C9: at most one yf.download is in progress at any time, whatever the
\* tickers; the thread inside it holds yf_lock and no cache lock.
C9_OneDownload ==
    /\ \A t1, t2 \in Workers :
          (pc[t1] = "net_yf" /\ pc[t2] = "net_yf") => t1 = t2
    /\ \A t \in Workers :
          pc[t] = "net_yf" =>
              (yf_lock = t /\ \A c \in CacheNames : locks[c] # t)

\* C9 witness: a download of one ticker is in progress and a task for another
\* ticker is waiting for yf_lock.
C9_Witness ==
    \E t1, t2 \in Workers :
        /\ pc[t1] = "net_yf"
        /\ pc[t2] = "yf_wait"
        /\ call[t1].key # call[t2].key

\* C10: a cache lock is free or held by a thread inside the lookup of get or
\* the insert of set of that cache; a thread inside a remote request, or
\* waiting for yf_lock, holds no cache lock.
C10_NoCacheLockAcrossNetwork ==
    /\ \A c \in CacheNames :
          locks[c] # NoHolder =>
              /\ pc[locks[c]] \in {"get", "set"}
              /\ CallCache(call[locks[c]]) = c
    /\ \A t \in Workers :
          pc[t] \in NetPcs \cup {"yf_wait"} =>
              \A c \in CacheNames : locks[c] # t

\* C10 witness: one thread is inside a remote request while another is inside
\* the lock of the same cache.
C10_Witness ==
    \E t1, t2 \in Workers :
        /\ pc[t1] \in NetPcs
        /\ pc[t2] \in {"get", "set"}
        /\ locks[CallCache(call[t2])] = t2
        /\ CallCache(call[t1]) = CallCache(call[t2])

\* C12: the wait of a request on one of its tasks never ends in a timeout
\* because the task is kept from its own fetch by a task that an earlier wait
\* abandoned and that still holds the global yf_lock.
C12_RequestsIndependent ==
    [][\A t \in Workers :
          (waiter[t] = "waiting" /\ waiter'[t] = "timedout") =>
              ~(/\ pc[t] = "yf_wait"
                /\ yf_lock # NoHolder
                /\ waiter[yf_lock] = "timedout")]_vars

\* thread t gets its answer from the air-quality service in this step, the
\* forecast having parsed
LeavesAqi(t) == pc[t] = "net_aqi" /\ pc'[t] # "net_aqi" /\ call[t].fc = "ok"

\* weather_data and reference differ in current.aqi and current.aqi_level
\* at most
SameButAqi(wd, reference) ==
    /\ DOMAIN wd = DOMAIN reference
    /\ \A f \in DOMAIN wd : f # "current" => wd[f] = reference[f]
    /\ DOMAIN wd.current = DOMAIN reference.current
    /\ \A f \in DOMAIN wd.current :
          f \notin {"aqi", "aqi_level"} => wd.current[f] = reference.current[f]

\* thread t stores the weather it fetched in this step
StoresWeather(t) ==
    pc[t] = "set" /\ pc'[t] = "returned" /\ call[t].fn = "get_weather"

\* C19: when the forecast call succeeds, get_weather goes on to
\* weather_cache.set whatever the air-quality call did; after an air-quality
\* failure the result has aqi "--" and aqi_level "Unknown" and every other
\* field as after an air-quality success, with the temperature, humidity
\* and forecast of the forecast response; and that result is what the cache
\* then holds.
C19_AqiFailureDegradesAqiOnly ==
    [][\A t \in Workers :
          /\ LeavesAqi(t) =>
                LET wd == call'[t].val IN
                /\ pc'[t] = "set_lock"
                /\ SameButAqi(wd, get_weather_data("ok", "ok"))
                /\ wd.current.temp = "31"
                /\ wd.current.humidity = "80%"
                /\ Len(wd.forecast) = 3
                /\ \/ wd.current.aqi = "42" /\ wd.current.aqi_level = "Good"
                   \/ wd.current.aqi = "--" /\ wd.current.aqi_level = "Unknown"
          /\ StoresWeather(t) =>
                /\ caches'["weather"]["weather_data"] # NoEntry
                /\ caches'["weather"]["weather_data"].val = call[t].val]_vars

\* C19 witness: the weather cache holds a result with the unknown AQI and
\* the temperature and forecast of the forecast response.
C19_Witness ==
    LET e == caches["weather"]["weather_data"] IN
    /\ e # NoEntry
    /\ e.val.current.aqi = "--"
    /\ e.val.current.aqi_level = "Unknown"
    /\ e.val.current.temp = "31"
    /\ Len(e.val.forecast) = 3

\* thread t leaves yf.download in this step
LeavesDownload(t) == pc[t] = "net_yf" /\ pc'[t] # "net_yf"

\* C20: a download that gave no price history makes generate_sparkline
\* return (None, "--", 0) as a whole and go nowhere near finance_cache.set:
\* the caches are as before, and no entry of the finance cache ever holds
\* the failure result.
C20_EmptyHistoryFailsWhole ==
    [][/\ \A t \in Workers :
             (LeavesDownload(t) /\ call'[t].fc = "empty") =>
                 /\ call'[t].val = [chart |-> "None", price |-> [str |-> "--"],
                                    change |-> 0]
                 /\ pc'[t] = "returned"
                 /\ caches' = caches
       /\ \A k \in KeysOf("finance") :
             caches'["finance"][k] # NoEntry =>
                 /\ caches'["finance"][k].val.chart # "None"
                 /\ "num" \in DOMAIN caches'["finance"][k].val.price]_vars

\* C20 witness: a generate_sparkline that returned the failure result after
\* an empty history, its key absent from the finance cache, while another
\* ticker's result is stored.
C20_Witness ==
    \E t \in Workers :
        /\ pc[t] = "returned"
        /\ call[t].fn = "generate_sparkline"
        /\ call[t].fc = "empty"
        /\ call[t].val = FinanceFailed
        /\ caches["finance"][call[t].key] = NoEntry
        /\ \E k \in KeysOf("finance") : caches["finance"][k] # NoEntry

-----------------------------------------------------------------------------
(* Claims about the failures of the news source *)

\* thread t learns in this step that the second of its two ID-list requests
\* failed too, or that the first raised (the second is then never sent)
BothIdListsFail(t) ==
    \/ /\ pc[t] = "net_top" /\ pc'[t] # "net_top"
       /\ call'[t].top = "raise"
    \/ /\ pc[t] = "net_best" /\ pc'[t] # "net_best"
       /\ call[t].top = "not_ok"
       /\ call'[t].fc \in {"raise", "not_ok"}

\* C21: when both ID-list requests fail, by an exception or a status that is
\* not 2xx, get_hacker_news returns the empty list and raises nothing.
C21_FeedFailureGivesEmptyList ==
    [][\A t \in Workers :
          BothIdListsFail(t) =>
              (pc'[t] = "returned" /\ call'[t].val = PyList(<<>>))]_vars

\* C21 witness: get_hacker_news has returned [] after a non-2xx answer to
\* the top-list request and an exception of the best-list request.
C21_Witness ==
    \E t \in Workers :
        /\ pc[t] = "returned"
        /\ call[t].fn = "get_hacker_news"
        /\ call[t].top = "not_ok"
        /\ call[t].fc = "raise"
        /\ call[t].val = PyList(<<>>)

\* the lookup of sid gave an item that is neither deleted nor dead
LookupSucceeded(sid) ==
    LET a == rin.items[sid] IN
    /\ a # PyNone
    /\ "deleted" \notin DOMAIN a
    /\ "dead" \notin DOMAIN a

\* the ids that were looked up
LookedUpIds == ToSet(UsedTop) \cup ToSet(UsedBest)

\* the positions after the item lookups
ResolvedPcs == {"filter", "sort", "breaker", "best", "more", "format", "done"}

\* C22: whatever subset of the item lookups fails (None after an exception
\* or a null body, a deleted item, a dead item), the pool items_map lacks
\* exactly the stories whose lookup failed and holds every other looked-up
\* story as it was answered; the ranking runs to its end and returns a list
\* of stories whose lookups succeeded, which is empty only if none of them
\* did.
C22_FailedLookupsDropped ==
    /\ rpc \in ResolvedPcs =>
          \A sid \in StoryIds :
              /\ rk.items_map[sid] # PyNone <=>
                    (sid \in LookedUpIds /\ LookupSucceeded(sid))
              /\ rk.items_map[sid] # PyNone =>
                    \A f \in DOMAIN rin.items[sid] :
                        rk.items_map[sid][f] = rin.items[sid][f]
    /\ rpc = "done" =>
          /\ \A i \in DOMAIN rk.display_stories :
                LookupSucceeded(rk.display_stories[i].id)
          /\ rk.display_stories = <<>> <=>
                ~\E sid \in LookedUpIds : LookupSucceeded(sid)

\* C22 witness: a full list ranked although one lookup of the top list gave
\* a deleted item, one a dead item and one nothing.
C22_Witness ==
    /\ rpc = "done"
    /\ {1, 5, 6} \subseteq ToSet(UsedTop)
    /\ rin.items[6] = PyNone
    /\ "deleted" \in DOMAIN rin.items[1]
    /\ "dead" \in DOMAIN rin.items[5]
    /\ Len(rk.display_stories) = 10
    /\ \A i \in DOMAIN rk.display_stories :
          rk.display_stories[i].id \notin {1, 5, 6}

\* the distinct stories of the two lists whose lookup succeeded
ResolvedStories == {sid \in LookedUpIds : LookupSucceeded(sid)}

\* C29: the ranked list has min(10, n) entries, n being the number of
\* distinct stories of the top and best lists whose lookup succeeded: a
\* story that fails the candidate filter still gets into the list, and the
\* list is shorter than 10 only when fewer than 10 stories resolved.
C29_LengthIsMinTenResolved ==
    rpc = "done" =>
        LET n == Cardinality(ResolvedStories) IN
        /\ Len(rk.display_stories) = IF n < 10 THEN n ELSE 10
        /\ n <= 10 =>
              {rk.display_stories[i].id : i \in DOMAIN rk.display_stories}
                  = ResolvedStories

\* C29 witness: a list of fewer than 10 that holds a top story which is no
\* candidate and no best story.
C29_Witness ==
    /\ rpc = "done"
    /\ Len(rk.display_stories) \in 4 .. 9
    /\ \E i \in DOMAIN rk.display_stories :
          LET sid == rk.display_stories[i].id IN
          /\ sid \notin ToSet(rk.breaking_candidates)
          /\ sid \notin ToSet(UsedBest)
          /\ rin.items[sid].score < 50

-----------------------------------------------------------------------------
(* Claims about the external news feed *)

\* thread t gets the answer of the external feed in this step
LeavesFeed(t) == pc[t] = "net_ext" /\ pc'[t] # "net_ext"

\* the positions of the requests to the top, best and item endpoints
HnRequestPcs == {"net_top", "net_best", "net_items"}

\* C26: with an external news URL configured, get_hacker_news is never in a
\* request to the top, best or item endpoint; when the feed answers with n
\* items it returns min(10, n) entries, entry i with the title and meta of
\* item i of the feed ("" for a missing one) and is_external true; when the
\* feed request fails it returns the empty list.
C26_ExternalFeedFirstTen ==
    [][\A t \in Workers :
          /\ (newsUrl = "url" /\ call'[t].fn = "get_hacker_news") =>
                pc'[t] \notin HnRequestPcs
          /\ LeavesFeed(t) =>
                LET o == call'[t].fc
                    out == call'[t].val
                IN
                IF o \in {"raise", "not_ok"}
                THEN out = PyList(<<>>) /\ pc'[t] = "returned"
                ELSE LET feed == FeedOf(o)
                         n == Len(feed)
                     IN
                     /\ out.list \in Seq(
                           [title : STRING, meta : STRING,
                            is_external : {TRUE}])
                     /\ Len(out.list) = IF n < 10 THEN n ELSE 10
                     /\ \A i \in DOMAIN out.list :
                           /\ out.list[i].title =
                                 IF "title" \in DOMAIN feed[i]
                                 THEN feed[i].title ELSE ""
                           /\ out.list[i].meta =
                                 IF "meta" \in DOMAIN feed[i]
                                 THEN feed[i].meta ELSE ""]_vars

\* C26 witness: the news cache holds the 10 entries made of a feed of more
\* than 10 items.
C26_Witness ==
    LET e == caches["news"]["external"] IN
    /\ newsUrl = "url"
    /\ e # NoEntry
    /\ Len(e.val.list) = 10
    /\ MaxFeed > 10
    /\ e.val.list[10].title = FeedOf("long")[10].title

-----------------------------------------------------------------------------
(* Claims about failed fetches and the caches *)

\* thread t ends its fetch in this step on a path without cache.set: out of
\* a request, by an exception, a status that is not 2xx or an empty price
\* series
FailsFetch(t) == pc[t] \in NetPcs /\ pc'[t] \in DonePcs

\* a failure or placeholder result: [], (None, "--", 0), or a weather_data
\* that the code after the forecast request did not fill to the end
IsFailureResult(v) ==
    \/ v = PyList(<<>>)
    \/ v = [chart |-> "None", price |-> [str |-> "--"], change |-> 0]
    \/ "current" \in DOMAIN v /\ "high_low" \notin DOMAIN v.current

\* C27: a fetch that ends in a failure or placeholder result leaves every
\* cache as it was; no cache.get ever serves such a result; and no entry of
\* the weather or finance cache ever holds one.
C27_FailedFetchLeavesCache ==
    [][/\ \A t \in Workers :
             /\ FailsFetch(t) =>
                   (IsFailureResult(call'[t].val) /\ caches' = caches)
             /\ (LeavesGet(t) /\ pc'[t] = "returned") =>
                   ~IsFailureResult(call'[t].val)
       /\ \A c \in {"weather", "finance"} : \A k \in KeysOf(c) :
             caches'[c][k] # NoEntry =>
                 ~IsFailureResult(caches'[c][k].val)]_vars

\* C27 witness: a weather fetch has returned what it had when the daily
\* arrays failed to parse, its key has no entry, and another fetch of the
\* same key is in its remote call.
C27_Witness ==
    \E t, u \in Workers :
        /\ t # u
        /\ pc[t] = "returned" /\ pc[u] \in NetPcs
        /\ call[t].fn = call[u].fn /\ call[t].key = call[u].key
        /\ IsFailureResult(call[t].val)
        /\ call[t].fn = "get_weather" /\ call[t].fc = "bad_daily"
        /\ caches[CallCache(call[t])][call[t].key] = NoEntry

-----------------------------------------------------------------------------
(* Claims about the finance list of the snapshot *)

\* what the wait on the future of ticker i received: the result of its task,
\* or (None, "--", 0) after a timeout or an exception
ReceivedFor(i) ==
    LET d == Tickers[i].symbol IN
    IF waited[d] \in {"timeout", "raised"}
    THEN [chart |-> "None", price |-> [str |-> "--"], change |-> 0]
    ELSE task[d].val

\* C28: whatever the finance fetches do, the finance list of the snapshot
\* has one entry per ticker in the order of the ticker list, entry i has the
\* name of ticker i, and its price, change and chart come from what the wait
\* on ticker i received and from nothing else.
C28_FinanceListPerTicker ==
    opc \in {"render", "done"} =>
        /\ Len(Snapshot.finance) = 3
        /\ [i \in 1 .. 3 |-> Snapshot.finance[i].name] =
               <<"SGD/CNY", "USD/CNY", "BTC/USD">>
        /\ \A i \in 1 .. 3 :
              LET e == Snapshot.finance[i]
                  r == ReceivedFor(i)
              IN
              /\ e.chart = r.chart
              /\ e.change = r.change
              /\ (r.price = [str |-> "--"]) <=> (e.price = [str |-> "--"])
              /\ e = FinanceEntry(Tickers[i], r)

\* C28 witness: the first ticker's wait timed out, the second ticker's fetch
\* failed, and the third entry carries the price of its own fetch.
C28_Witness ==
    /\ opc = "done"
    /\ waited[Tickers[1].symbol] = "timeout"
    /\ waited[Tickers[2].symbol] = "failed"
    /\ waited[Tickers[3].symbol] = "ok"
    /\ Len(finance_data) = 3
    /\ finance_data[1].price = [str |-> "--"]
    /\ finance_data[3].price = [grouped0 |-> 5]

-----------------------------------------------------------------------------
(* Claims about /render *)

\* request h passes the test of line 114 in this step
TestsCache(h) == rreq[h].pc = "check" /\ rreq'[h].pc # "check"

\* request h gets its response in this step
Responds(h) == rreq[h].pc # "done" /\ rreq'[h].pc = "done"

\* C30: a request to /render is answered with the stored image, the
\* renderer not called, if and only if at its test an image is stored and
\* its time minus the stored timestamp is under 60 seconds; otherwise it
\* calls the renderer once; and when that call raises, the answer is a 500
\* and the step leaves the stored image and the stored timestamp as they
\* were.
C30_RenderCacheSixtySeconds ==
    [][\A h \in Handlers :
          /\ TestsCache(h) =>
                IF /\ render_cache.data # PyNone
                   /\ rreq[h].current_time - render_cache.timestamp < 60
                THEN rreq'[h].pc = "serve"
                ELSE rreq'[h].pc = "render"
          /\ (Responds(h) /\ rreq[h].pc = "serve") =>
                /\ rreq'[h].renders = 0
                /\ rreq'[h].resp.status = 200
                /\ rreq'[h].resp.data = render_cache.data
                /\ render_cache' = render_cache
          /\ (Responds(h) /\ rreq[h].pc # "serve") =>
                rreq'[h].renders = 1
          /\ (Responds(h) /\ rreq[h].pc = "render") =>
                /\ rreq'[h].resp.status = 500
                /\ render_cache' = render_cache]_vars

\* C30 witness: one request is answered from the stored image 40 seconds
\* after the request that rendered it, and another one got a 500.
C30_Witness ==
    \E h, g \in Handlers :
        /\ rreq[h].pc = "done" /\ rreq[g].pc = "done"
        /\ rreq[h].renders = 0
        /\ rreq[h].resp.status = 200
        /\ rreq[h].current_time - rreq[h].resp.last_modified = 40
        /\ rreq[g].resp.status = 500
        /\ render_cache.data # NoImage

-----------------------------------------------------------------------------
(* Claims about the forecast slots *)

\* the naive +3h hour: the hour of the time three hours after now
NaiveSlot == FloorHour(AddHours(cin.now, 3))

\* the third slot
ThirdSlot == cout.targets[3]

\* C23 as stated: with work-start < work-end, the third slot is the naive
\* +3h hour when that hour is within the work hours, it is on a work-start
\* or work-end boundary only when the naive hour is outside them, and it is
\* never earlier than the naive +3h hour.
C23_NaiveWithinWorkHours ==
    (cpc = "slot_done" /\ cin.work_start < cin.work_end) =>
        LET within == /\ cin.work_start <= NaiveSlot.hour
                      /\ NaiveSlot.hour < cin.work_end
        IN
        /\ within => ThirdSlot = NaiveSlot
        /\ ThirdSlot # NaiveSlot =>
              (~within /\ ThirdSlot.hour \in {cin.work_start, cin.work_end})
        /\ ~DtLess(ThirdSlot, NaiveSlot)

\* C23 amended: with work-start < work-end, the third slot is on the day of
\* the naive +3h hour; it is the work-start hour when the naive hour is
\* before work-start, the work-end hour when the naive hour is within the
\* work hours, and the naive hour itself when that is work-end or later; it
\* is never earlier than the naive +3h hour.
C23_SlotSnapsToNextBoundary ==
    (cpc = "slot_done" /\ cin.work_start < cin.work_end) =>
        /\ SameDate(ThirdSlot, NaiveSlot)
        /\ ThirdSlot.minute = 0
        /\ ThirdSlot.hour =
              IF NaiveSlot.hour < cin.work_start THEN cin.work_start
              ELSE IF NaiveSlot.hour < cin.work_end THEN cin.work_end
              ELSE NaiveSlot.hour
        /\ ~DtLess(ThirdSlot, NaiveSlot)
        /\ cout.forecast[3].label = ThirdSlot.hour

\* C23 witness: at 22:45 on the last day of a year, with work hours 10 to
\* 18, the naive slot is 01:00 of the next day and the third slot 10:00 of
\* that day.
C23_Witness ==
    /\ cpc = "slot_done"
    /\ cin.now = Dt(2024, 12, 31, 22, 45)
    /\ cin.work_start = 10 /\ cin.work_end = 18
    /\ ThirdSlot = Dt(2025, 1, 1, 10, 0)
    /\ cout.forecast[3].label = 10

-----------------------------------------------------------------------------
(* Claims about the weather alert *)

\* the rain, snow, thunderstorm and drizzle codes
QualifyingCodes ==
    {61, 63, 65, 80, 81, 82, 66, 67, 71, 73, 75, 85, 86, 77, 95, 96, 99,
     51, 53, 55}

\* the offsets, among the next 48 hours of the series, of the hours with a
\* qualifying code; the series starts at 00:00 of the day of now
EventHours ==
    {k \in 1 .. 48 :
        /\ cin.now.hour + 1 + k <= cin.hourly_len
        /\ cin.codes[cin.now.hour + 1 + k] \in QualifyingCodes}

NearestEvent == CHOOSE k \in EventHours : \A j \in EventHours : k <= j

\* C24 as stated: the alert is made of the qualifying event with the
\* smallest positive offset among the next 48 hours: "in N hours" for an
\* offset of at most 3, "today at H" for a later hour of the same calendar
\* day, "tomorrow at H" for an hour of the next calendar day, on every date;
\* without a qualifying event the alert is empty.
C24_AlertOfNearestEvent ==
    cpc = "alert_done" =>
        IF EventHours = {}
        THEN cout.alert_msg = [kind |-> ""]
        ELSE LET k == NearestEvent
                 at == AddHours(FloorHour(cin.now), k)
                 msg == cout.alert_msg
             IN
             /\ msg.kind # ""
             /\ k <= 3 => (msg.kind = "in" /\ msg.hours = k)
             /\ (k > 3 /\ SameDate(at, cin.now)) =>
                   (msg.kind = "at" /\ msg.hour = at.hour)
             /\ (k > 3 /\ SameDate(at, NextDay(cin.now))) =>
                   (msg.kind = "tom. at" /\ msg.hour = at.hour)

\* the state the claim fails in: on the last day of a month the nearest
\* event is more than 3 hours away on the next calendar day, and the alert
\* counts hours
MonthEndAlert ==
    /\ cpc = "alert_done"
    /\ EventHours # {}
    /\ NearestEvent > 3
    /\ cin.now.day = DaysIn(cin.now.year, cin.now.month)
    /\ SameDate(AddHours(FloorHour(cin.now), NearestEvent), NextDay(cin.now))
    /\ cout.alert_msg.kind = "in"

-----------------------------------------------------------------------------
(* Claims about the calendar *)

\* d is a Saturday, a Sunday or a holiday of the table of the country
NonWorkingDay(d) ==
    \/ Weekday(d) \in {5, 6}
    \/ \E h \in CountryHolidays(cin.country) :
          h.month = d.month /\ h.day = d.day

\* C25: next_non_working is the earliest day after today that is a
\* Saturday, a Sunday or a holiday; the scan examines at most 30 days;
\* days_away is the number of days from today to that day and lies between
\* 1 and 6; next_non_working is never null.
C25_NextNonWorkingDay ==
    cpc = "cal_done" =>
        LET nnw == cout.next_non_working IN
        /\ "days_away" \in DOMAIN nnw
        /\ nnw.days_away \in 1 .. 6
        /\ LET d == AddDays(cin.now, nnw.days_away) IN
           /\ NonWorkingDay(d)
           /\ nnw.date = [month |-> d.month, day |-> d.day]
        /\ \A j \in 1 .. (nnw.days_away - 1) :
              ~NonWorkingDay(AddDays(cin.now, j))
        /\ cout.examined = nnw.days_away
        /\ cout.examined <= ScanDays

\* a call on a Sunday with no holiday in the week after it: the scan goes
\* on to the Saturday six days later
C25_Witness ==
    /\ cpc = "cal_done"
    /\ Weekday(cin.now) = 6
    /\ "days_away" \in DOMAIN cout.next_non_working
    /\ cout.next_non_working.days_away = 6
    /\ cout.next_non_working.name = "Saturday"

-----------------------------------------------------------------------------
(* Claims about concurrent /render requests *)

\* the step of line 128 by handler h
WritesTimestamp(h) == rreq[h].pc = "store_ts" /\ rreq'[h].pc = "done"

\* C31: under any interleaving of /render requests the stored image and the
\* stored timestamp come from the same render (a request that writes its
\* timestamp writes it next to its own image), and the stored timestamp
\* never decreases.
C31_RenderCacheConsistent ==
    [][/\ \A h \in Handlers :
             WritesTimestamp(h) => render_cache.data = rreq[h].image_bytes
       /\ render_cache'.timestamp >= render_cache.timestamp]_vars

\* the cache at rest after the claim failed: no request is between lines
\* 124 and 128, and a request that has made its response from its own
\* render finds its image in the cache under an earlier timestamp
TornRenderCache ==
    /\ \A h \in Handlers : rreq[h].pc \in {"idle", "done"}
    /\ \E h \in Handlers :
          /\ rreq[h].pc = "done"
          /\ rreq[h].resp.status = 200
          /\ rreq[h].renders = 1
          /\ rreq[h].resp.data = render_cache.data
          /\ rreq[h].resp.last_modified > render_cache.timestamp

=============================================================================
